---- MODULE Spec2Model ----
(***************************************************************************)
(* Model of the coordination core of notion2quote:                         *)
(*   src/src/services/syncService.js  (lines 271-511: queue, rate window,  *)
(*                                     dedup cache, executeSync)           *)
(*   src/src/services/quote.js        (lines 236-525: sendTasksInBatches   *)
(*                                     with syncLock)                      *)
(*   src/src/api/webhook.js           (webhook handler, own rate window    *)
(*                                     and dedup cache)                    *)
(*   src/src/services/quote.js        (lines 1-234: the first version's    *)
(*                                     page selection, format and push)    *)
(*   src/unnamed/part_003             (getNotionTasks)                     *)
(*   src/src/utils/errorHandler.js    (lines 141-303: the error classes    *)
(*                                     and the Express error handler)      *)
(* One step of the model is one macrotask of the Node.js event loop: the   *)
(* synchronous code that runs from a call, a timer or an HTTP response up  *)
(* to the next await that really suspends.                                 *)
(***************************************************************************)
EXTENDS Integers, Sequences, FiniteSets, TLC

----------------------------------------------------------------------------
\* Bounds of the model.

\* addSyncTask calls in one run of Spec
MaxAdd == 2
\* addSyncTask calls in one run of SpecQueue
MaxQueueAdd == 3
\* executeSync calls in one run, and executeSync invocations at once
MaxExec == 1
\* webhook requests in one run, and webhook handlers at once
MaxHook == 2
\* processSyncQueue invocations that can be past their guard at once
MaxDrains == 2
\* clock ticks in one run of SpecQueue
MaxTicks == 3
\* clock ticks in one run of Spec and of SpecTriggers
MaxTriggerTicks == 2
\* clock ticks in one run of SpecRate
MaxRateTicks == 5
\* timestamps in apiCalls up to which recordApiCall() is called directly
MaxWindow == 3
\* items in the list handed to the first version's sendTasksInBatches
MaxItems == 7
\* the latest minute of the day at which it is called (first)
MaxMinute == 5
\* the largest page size the slicing is checked for
MaxPageSize == 4
\* items in the lists sent over a whole day (seven pages of three)
MaxRotationItems == 21
\* items a fetch returns in the specification of the rotation interval
MaxFetchItems == 75
\* direct calls of sendTasksInBatches in flight at once
MaxSend == 1
\* half-window clock ticks at the start of a run of SpecGated
MaxGatedTicks == 2
\* clock ticks in one run of SpecRounds (three rounds of three pages)
MaxRoundTicks == 8
\* items in a list handed to the fourth version's sendTasksInBatches
MaxChangeItems == 2
\* calls of it in one run
MaxChangeCalls == 3
\* webhook requests in one run of SpecHook
MaxHookCalls == 4
\* syncService.js:287 and webhook.js:15 set 60; the model scales it down
MAX_CALLS_PER_MINUTE == 2
\* syncService.js:295 and webhook.js:11 set 1000; the model scales it down
MAX_CACHE_SIZE == 4

----------------------------------------------------------------------------
\* Program constants.

\* now - timestamp < 60000
WINDOW_MS == 60000
\* setTimeout(resolve, 1000): the rate-limit backoff
BACKOFF_MS == 1000
\* setTimeout(resolve, 500): the pause between tasks
PAUSE_MS == 500
\* sendTasksInBatches(tasks, 3, ...): batchSize
BATCH_SIZE == 3
\* for (let loop = 0; loop < 3; loop++)
ROUNDS == 3
\* task.length > 11 ? task.substring(0, 11) + '...' : task
ITEM_CAP == 11
\* maxMessageLength: 500
MAX_MESSAGE_LENGTH == 500
\* if (err.code === 11000)
DUPLICATE_KEY == 11000
\* the significant bits of a JavaScript number (an IEEE 754 double)
PRECISION == 53

\* now.getHours() * 60 + now.getMinutes() ranges over 0 .. 24 * 60 - 1
MINUTES_PER_DAY == 24 * 60

\* The clock advances in steps of five rate windows (the wait between two
\* rounds of a one-page send); timers fire no earlier than their delay.
TICK_MS == 5 * WINDOW_MS
\* The finer step of the clock, for the rate limiter on its own.
FINE_TICK_MS == WINDOW_MS \div 2

NoEvent == ""
EventIds == {"e1"}
\* the identifiers addProcessedEvent is called with directly
CacheIds == {"e1", "e2", "e3", "e4", "e5", "e6"}
\* lengths of the item list getNotionTasks resolves to
FetchSizes == {0, 2}
\* lengths of the lists sent in SpecRounds: none, one, two and three pages
RoundSizes == {0, 2, 4, 7}

DrainIds == {<<"drain", i>> : i \in 1..MaxDrains}
ExecIds == {<<"exec", i>> : i \in 1..MaxExec}
HookIds == {<<"hook", i>> : i \in 1..MaxHook}
SendIds == {<<"send", i>> : i \in 1..MaxSend}
ProcIds == DrainIds \cup ExecIds \cup HookIds \cup SendIds

VARIABLES
  now,                 \* Date.now()
  envOk,               \* checkEnvVariables().success
  apiCalls,            \* syncService.js: apiCalls
  syncQueue,           \* syncService.js: syncQueue
  isProcessingQueue,   \* syncService.js: isProcessingQueue
  processedEvents,     \* syncService.js: processedEvents (insertion order)
  syncLock,            \* quote.js: syncLock
  hookApiCalls,        \* webhook.js: apiCalls
  hookProcessedEvents, \* webhook.js: processedEvents (insertion order)
  procs,               \* the async invocations and where each is suspended
  nAdd, nExec, nHook,  \* calls made so far
  runs,                \* history: runs started per event id and path
  recentCalls,         \* history: recordApiCall times in the trailing window
  recentPushes,        \* history: push times in the trailing window
  lastOp,              \* history: the operation of the last step
  sent,                \* quote.js (first version): the last sendTasksInBatches
  res,                 \* errorHandler.js: the last error and the response to it
  lastTaskHash,        \* quote.js (fourth version): lastTaskHash
  changeSends          \* quote.js (fourth version): the calls and their pushes

vars == <<now, envOk, apiCalls, syncQueue, isProcessingQueue, processedEvents,
          syncLock, hookApiCalls, hookProcessedEvents, procs, nAdd, nExec,
          nHook, runs, recentCalls, recentPushes, lastOp, sent, res,
          lastTaskHash, changeSends>>

----------------------------------------------------------------------------
\* Helpers.

Range(s) == {s[i] : i \in DOMAIN s}

Min(S) == CHOOSE x \in S : \A y \in S : x <= y

BoolStr(b) == IF b THEN "true" ELSE "false"

\* what a task's callback does when it is called: there is none, it
\* returns, or it throws
Callbacks == {"none", "returns", "throws"}

\* A task of the queue; id is the order of the addSyncTask call that made it
\* (the code's timestamp: Date.now() field, made unique).
Task(id, forceSync, eventId, callback) ==
  [id |-> id, forceSync |-> forceSync, eventId |-> eventId,
   callback |-> callback]

NoTask == Task(0, FALSE, NoEvent, "none")

\* An invocation that is not running (pages and results are history: the
\* pages whose push was started, and results, the array of the code).
Free ==
  [pc |-> "free", task |-> NoTask, total |-> 0, round |-> 0, batch |-> 0,
   allOk |-> TRUE, wakeAt |-> 0, pages |-> <<>>, results |-> <<>>]

\* the object getQueueStatus returns, with the queue, the flag and the
\* window being q, flag and calls (the queue length derived from nothing but
\* the queue, the flag read as it is)
QueueStatusByLength(q, flag, calls) ==
  [queueLength |-> Len(q), isProcessing |-> Len(q) > 0,
   recentApiCalls |-> Len(calls)]

\* the object getQueueStatus returns
QueueStatus(q, flag, calls) ==
  [queueLength |-> Len(q), isProcessing |-> flag,
   recentApiCalls |-> Len(calls)]

\* no status returned
NoStatus == QueueStatus(<<>>, FALSE, <<>>)

\* What the last step did: the operation, the event id it carried, what it
\* returned (or answered), what the task's callback was last called with,
\* whether it attempted a sync (reached a rate-limit check), and for a pass
\* of the drain loop the queue it selected from, the task it took and whether
\* that task's sync was started (for a direct addProcessedEvent, from is the
\* cache it was called on); the task whose execution ended in the step, how
\* often its callback was called, and whether an exception left
\* processSyncQueue (its promise rejected); for a step that calls
\* sendTasksInBatches, the forceSync it passes; for a step in which
\* sendTasksInBatches returns, the pages it pushed, the results array and
\* the number of pages of its list.
Op(op, arg, ret, cb, attempt) ==
  [op |-> op, arg |-> arg, ret |-> ret, cb |-> cb, attempt |-> attempt,
   from |-> <<>>, taken |-> NoTask, started |-> FALSE, status |-> NoStatus,
   done |-> NoTask, calls |-> 0, escaped |-> FALSE, forced |-> FALSE,
   pages |-> <<>>, results |-> <<>>, total |-> 0]

\* the runs counted in r, with one more of event id eventId on a path
Count(r, via, eventId) ==
  IF eventId = NoEvent THEN r ELSE [r EXCEPT ![via][eventId] = @ + 1]

----------------------------------------------------------------------------
\* syncService.js: the dedup cache and the rate limiter.

\* isEventProcessed that never finds the event
IsEventProcessedNever(cache, eventId) == FALSE

\* processedEvents.has(eventId)
IsEventProcessed(cache, eventId) == eventId \in Range(cache)

\* addProcessedEvent evicting only above the maximum: size > MAX_CACHE_SIZE
AddProcessedEventLate(cache, eventId) ==
  LET oldestEvents ==
        IF Len(cache) > MAX_CACHE_SIZE
        THEN {cache[i] : i \in 1..(MAX_CACHE_SIZE \div 2)}
        ELSE {}
      kept == SelectSeq(cache, LAMBDA id : id \notin oldestEvents)
  IN  IF eventId \in {kept[i] : i \in DOMAIN kept}
      THEN kept
      ELSE Append(kept, eventId)

\* addProcessedEvent evicting the oldest identifier alone: slice(0, 1)
AddProcessedEventEvictOne(cache, eventId) ==
  LET oldestEvents == IF Len(cache) >= MAX_CACHE_SIZE THEN {cache[1]} ELSE {}
      kept == SelectSeq(cache, LAMBDA id : id \notin oldestEvents)
  IN  IF eventId \in {kept[i] : i \in DOMAIN kept}
      THEN kept
      ELSE Append(kept, eventId)

\* the cache after addProcessedEvent(eventId): when it is full, the first
\* MAX_CACHE_SIZE / 2 identifiers in insertion order are deleted, then the
\* identifier is added (a Set: adding a member changes nothing)
AddProcessedEvent(cache, eventId) ==
  LET oldestEvents ==
        IF Len(cache) >= MAX_CACHE_SIZE
        THEN Range(SubSeq(cache, 1, MAX_CACHE_SIZE \div 2))
        ELSE {}
      kept == SelectSeq(cache, LAMBDA id : id \notin oldestEvents)
  IN  IF eventId \in Range(kept) THEN kept ELSE Append(kept, eventId)

\* the filter with an inclusive bound: now - timestamp <= 60000
RecentCallsInclusive(calls, t) ==
  SelectSeq(calls, LAMBDA ts : t - ts <= WINDOW_MS)

\* the calls of the trailing window, as apiCalls.filter keeps them
RecentCallsOf(calls, t) == SelectSeq(calls, LAMBDA ts : t - ts < WINDOW_MS)

\* isOverRateLimit with > in place of >=
IsOverRateLimitStrict(calls, t) ==
  Len(RecentCallsOf(calls, t)) > MAX_CALLS_PER_MINUTE

\* no limit: return false
IsOverRateLimitNever(calls, t) == FALSE

\* isOverRateLimit() at time t
IsOverRateLimit(calls, t) ==
  Len(RecentCallsOf(calls, t)) >= MAX_CALLS_PER_MINUTE

\* while (apiCalls.length > 0 && now - apiCalls[0] >= 60000) apiCalls.shift()
RECURSIVE ShiftOld(_, _)
ShiftOld(calls, t) ==
  IF calls # <<>> /\ t - Head(calls) >= WINDOW_MS
  THEN ShiftOld(Tail(calls), t)
  ELSE calls

\* apiCalls after recordApiCall() at time t
RecordApiCall(calls, t) == ShiftOld(Append(calls, t), t)

----------------------------------------------------------------------------
\* syncService.js: processSyncQueue.

\* if (task.callback) task.callback(success), inside the try block: when the
\* callback throws, the catch block calls it again with false, and an
\* exception of that call leaves the loop. cb is the last argument, calls
\* the number of calls, escaped whether an exception left the catch block.
CallbackInTry(callback, success) ==
  IF callback = "none" THEN [cb |-> "none", calls |-> 0, escaped |-> FALSE]
  ELSE IF callback = "returns"
  THEN [cb |-> BoolStr(success), calls |-> 1, escaped |-> FALSE]
  ELSE [cb |-> "false", calls |-> 2, escaped |-> TRUE]

\* catch (err) { if (task.callback) task.callback(false) }, after the
\* execution itself has thrown
CallbackInCatch(callback) ==
  IF callback = "none" THEN [cb |-> "none", calls |-> 0, escaped |-> FALSE]
  ELSE [cb |-> "false", calls |-> 1, escaped |-> callback = "throws"]

\* processSyncQueue without its guard
LoopBusyNever(flag) == FALSE

\* if (isProcessingQueue) return;
LoopBusy(flag) == flag

\* the selection without the forced-task search: always shift()
SelectHead(q) == [task |-> Head(q), rest |-> Tail(q)]

\* The task one pass of the loop takes and the queue it leaves: the first
\* task with forceSync if there is one (find, then splice), else shift().
SelectTask(q) ==
  LET forced == {i \in DOMAIN q : q[i].forceSync}
  IN  IF forced # {}
      THEN LET index == Min(forced)
           IN  [task |-> q[index],
                rest |-> SubSeq(q, 1, index - 1) \o SubSeq(q, index + 1, Len(q))]
      ELSE [task |-> Head(q), rest |-> Tail(q)]

\* the requeue with push in place of unshift
RequeueAtTail(q, task) == Append(q, task)

\* syncQueue.unshift(task), after the rate-limit backoff
Requeue(q, task) == <<task>> \o q

----------------------------------------------------------------------------
\* quote.js: sendTasksInBatches.

\* Math.ceil(totalTasks / batchSize)
TotalBatches(totalTasks) == (totalTasks + BATCH_SIZE - 1) \div BATCH_SIZE

\* JavaScript numbers are IEEE 754 doubles. A positive double is kept as
\* [m, e]: m its PRECISION significant bits (first bit 1, most significant
\* first) and e the exponent of the last of them, its value being m * 2^e.

\* n bits 0
Zeros(n) == [i \in 1..n |-> 0]

\* the bits of the natural number n, without leading zeros
RECURSIVE Bin(_)
Bin(n) == IF n = 0 THEN <<>> ELSE Bin(n \div 2) \o <<n % 2>>

\* the natural number the first n bits stand for (n is small)
RECURSIVE BitsValue(_, _)
BitsValue(bits, n) ==
  IF n = 0 THEN 0 ELSE 2 * BitsValue(bits, n - 1) + bits[n]

\* bits + 1: the last 0 becomes 1 and the 1s after it become 0
Increment(bits) ==
  LET zeros == {i \in 1..Len(bits) : bits[i] = 0}
      last == CHOOSE i \in zeros : \A j \in zeros : j <= i
  IN  IF zeros = {} THEN <<1>> \o Zeros(Len(bits))
      ELSE SubSeq(bits, 1, last - 1) \o <<1>> \o Zeros(Len(bits) - last)

\* bits without its leading zeros
StripZeros(bits) ==
  LET ones == {i \in 1..Len(bits) : bits[i] = 1}
      first == CHOOSE i \in ones : \A j \in ones : i <= j
  IN  IF ones = {} THEN <<>> ELSE SubSeq(bits, first, Len(bits))

\* The double nearest to the exact positive value bits * 2^e (plus a rest
\* below the last bit when sticky): the first PRECISION significant bits,
\* rounded to nearest, ties to even.
RoundToDouble(bits, sticky, e) ==
  LET sig == StripZeros(bits)
      padded == sig \o Zeros(PRECISION + 1)
      kept == SubSeq(padded, 1, PRECISION)
      guard == padded[PRECISION + 1]
      rest == sticky \/ \E i \in (PRECISION + 2)..Len(sig) : sig[i] = 1
      exponent == e + Len(sig) - PRECISION
      up == guard = 1 /\ (rest \/ kept[PRECISION] = 1)
      raised == Increment(kept)
  IN  IF ~up THEN [m |-> kept, e |-> exponent]
      ELSE IF Len(raised) > PRECISION
      THEN [m |-> SubSeq(raised, 1, PRECISION), e |-> exponent + 1]
      ELSE [m |-> raised, e |-> exponent]

\* the double of a positive integer (it has few bits: the value is exact)
FromInteger(n) == RoundToDouble(Bin(n), FALSE, 0)

\* Long division of bits lo..hi by the positive integer d, entered with the
\* remainder rem of the bits before them: the quotient bits and the
\* remainder left. (Halved, to keep the evaluation shallow.)
RECURSIVE LongDivision(_, _, _, _, _)
LongDivision(bits, lo, hi, d, rem) ==
  IF lo > hi THEN [q |-> <<>>, rem |-> rem]
  ELSE IF lo = hi
  THEN [q |-> <<(2 * rem + bits[lo]) \div d>>,
        rem |-> (2 * rem + bits[lo]) % d]
  ELSE LET mid == (lo + hi) \div 2
           left == LongDivision(bits, lo, mid, d, rem)
           right == LongDivision(bits, mid + 1, hi, d, left.rem)
       IN  [q |-> left.q \o right.q, rem |-> right.rem]

\* x / d for a double x and a positive integer d: the exact quotient,
\* rounded once
DivideBy(x, d) ==
  LET division == LongDivision(x.m \o Zeros(PRECISION), 1, 2 * PRECISION, d, 0)
  IN  RoundToDouble(division.q, division.rem # 0, x.e - PRECISION)

\* bits in the opposite order
Reverse(bits) == [i \in 1..Len(bits) |-> bits[Len(bits) + 1 - i]]

\* Bits lo..hi (least significant first) times the positive integer k, plus
\* the carry from the bits before them: the product's bits at these places
\* and the carry left.
RECURSIVE MultiplyBits(_, _, _, _, _)
MultiplyBits(bits, lo, hi, k, carry) ==
  IF lo > hi THEN [p |-> <<>>, carry |-> carry]
  ELSE IF lo = hi
  THEN [p |-> <<(bits[lo] * k + carry) % 2>>,
        carry |-> (bits[lo] * k + carry) \div 2]
  ELSE LET mid == (lo + hi) \div 2
           low == MultiplyBits(bits, lo, mid, k, carry)
           high == MultiplyBits(bits, mid + 1, hi, k, low.carry)
       IN  [p |-> low.p \o high.p, carry |-> high.carry]

\* x * k for a double x and a positive integer k: the exact product,
\* rounded once
MultiplyBy(x, k) ==
  LET product == MultiplyBits(Reverse(x.m), 1, PRECISION, k, 0)
  IN  RoundToDouble(Bin(product.carry) \o Reverse(product.p), FALSE, x.e)

\* Math.floor(x) of a double x >= 0 below 2^PRECISION, as an integer
Floor(x) ==
  IF PRECISION + x.e <= 0 THEN 0
  ELSE BitsValue(x.m, PRECISION + x.e)

\* const dynamicIntervalMinutes = 15 / totalPages / 3;  (totalPages >= 1)
DynamicIntervalMinutes(totalPages) ==
  DivideBy(DivideBy(FromInteger(15), totalPages), 3)

\* Math.max(Math.floor(dynamicIntervalMinutes * 60), 5), for every page
\* count the fetched lists of the model can have
DynamicIntervals ==
  [totalPages \in 1..TotalBatches(MaxFetchItems) |->
     LET seconds == Floor(MultiplyBy(DynamicIntervalMinutes(totalPages), 60))
     IN  IF seconds > 5 THEN seconds ELSE 5]

\* const dynamicIntervalSeconds = ...
DynamicIntervalSeconds(totalPages) == DynamicIntervals[totalPages]

\* the start without `if (syncLock && !forceSync) return true`
StartSendNoSkip(lock, forceSync, totalTasks) ==
  IF totalTasks = 0
  THEN [done |-> TRUE, result |-> TRUE, lock |-> FALSE, total |-> 0]
  ELSE [done |-> FALSE, result |-> TRUE, lock |-> TRUE,
        total |-> TotalBatches(totalTasks)]

\* The synchronous start of sendTasksInBatches(tasks, 3, 2, forceSync) with
\* tasks.length = totalTasks: skipped (returns true) when the lock is held
\* and the call is not forced; else the lock is taken (a forced call first
\* releases it), and an empty list returns true through the finally block,
\* which releases the lock; else the first page's push is in flight.
\* (getConfig() does not throw here: the caller's getNotionTasks, which
\* calls it first, has resolved.)
StartSend(lock, forceSync, totalTasks) ==
  IF lock /\ ~forceSync
  THEN [done |-> TRUE, result |-> TRUE, lock |-> lock, total |-> 0]
  ELSE IF totalTasks = 0
       THEN [done |-> TRUE, result |-> TRUE, lock |-> FALSE, total |-> 0]
       ELSE [done |-> FALSE, result |-> TRUE, lock |-> TRUE,
             total |-> TotalBatches(totalTasks)]


----------------------------------------------------------------------------
\* quote.js, first version (lines 1-234): the page shown is chosen by the
\* minute of the day, formatted and pushed once.

\* Texts are sequences of one-character strings.
Ellipsis == <<".", ".", ".">>

DigitChars == <<"0", "1", "2", "3", "4", "5", "6", "7", "8", "9">>

Letters == <<"A", "B", "C", "D", "E", "F", "G", "H", "I", "J">>

\* the i-th title of a list, n characters long: titles of one list differ
ItemText(i, n) == [j \in 1..n |-> IF j = 1 THEN Letters[i] ELSE "x"]

\* lengths of the titles: short, at the cap, over the cap
TextLengths == {1, ITEM_CAP, ITEM_CAP + 1}

\* the lists getNotionTasks hands over (it drops empty titles)
ItemLists ==
  {[i \in 1..n |-> ItemText(i, len)] : n \in 0..MaxItems, len \in TextLengths}

\* intervalMinutes: 2 by default in sendTasksInBatches, 3 in sendToQuoteDevice
Intervals == {2, 3}

\* What axios.post comes to: a response (axios resolves on a 2xx status)
\* with a body that is null or carries a code, or a rejection.
Responses ==
  {[kind |-> "response", status |-> 200, body |-> TRUE, code |-> 0],
   [kind |-> "response", status |-> 201, body |-> TRUE, code |-> 200],
   [kind |-> "response", status |-> 201, body |-> TRUE, code |-> 0],
   [kind |-> "response", status |-> 204, body |-> FALSE, code |-> 0],
   [kind |-> "timeout", status |-> 0, body |-> FALSE, code |-> 0],
   [kind |-> "rejected", status |-> 500, body |-> TRUE, code |-> 500]}

NoResponse == [kind |-> "none", status |-> 0, body |-> FALSE, code |-> 0]

\* the device answers 200
Accepted == [kind |-> "response", status |-> 200, body |-> TRUE, code |-> 0]

\* the decimal digits of n, as String(n) gives them
RECURSIVE Digits(_)
Digits(n) ==
  IF n < 10
  THEN <<DigitChars[n + 1]>>
  ELSE Digits(n \div 10) \o <<DigitChars[(n % 10) + 1]>>

\* the i-th title of a list sent over the day
RotationItem(i) == <<"T">> \o Digits(i)

\* the lists sent over the day: up to MaxRotationItems short titles
RotationLists ==
  {[i \in 1..n |-> RotationItem(i)] : n \in 0..MaxRotationItems}

\* lines.join('\n')
RECURSIVE Join(_)
Join(lines) ==
  IF lines = <<>> THEN <<>>
  ELSE IF Len(lines) = 1 THEN lines[1]
  ELSE lines[1] \o <<"\n">> \o Join(Tail(lines))

\* the cap without the cut: task + '...'
LimitedTaskUncut(task) ==
  IF Len(task) > ITEM_CAP THEN task \o Ellipsis ELSE task

\* task.length > 11 ? task.substring(0, 11) + '...' : task
LimitedTask(task) ==
  IF Len(task) > ITEM_CAP THEN SubSeq(task, 1, ITEM_CAP) \o Ellipsis ELSE task

\* the numbering restarted on every page: index + 1
TaskLabelPerPage(startIndex, index) == index + 1

\* the number in front of the task at (0-based) index of the page
TaskLabel(startIndex, index) == startIndex + index + 1

\* tasks.map((task, index) => `${startIndex + index + 1}. ${limitedTask}`),
\* each line with its number and its text
TaskLines(tasks, startIndex) ==
  [i \in 1..Len(tasks) |->
     [label |-> TaskLabel(startIndex, i - 1), text |-> LimitedTask(tasks[i])]]

\* formatTasksMessage(tasks, batchNumber, totalBatches, startIndex)
FormatTasksMessage(tasks, startIndex) ==
  LET lines == TaskLines(tasks, startIndex)
      tasksText ==
        Join([i \in 1..Len(lines) |->
                Digits(lines[i].label) \o <<".", " ">> \o lines[i].text])
  IN  IF Len(tasksText) > MAX_MESSAGE_LENGTH
      THEN SubSeq(tasksText, 1, MAX_MESSAGE_LENGTH) \o Ellipsis
      ELSE tasksText

\* the page after the one shown last: a stored counter in place of the clock
CurrentBatchCounter(minutesSinceMidnight, batchInterval, totalBatches) ==
  (sent.currentBatch % totalBatches) + 1

\* the page number rounded up: Math.ceil in place of Math.floor
CurrentBatchCeil(minutesSinceMidnight, batchInterval, totalBatches) ==
  ((minutesSinceMidnight \div batchInterval) % totalBatches)
    + (IF minutesSinceMidnight % batchInterval = 0 THEN 0 ELSE 1) + 1

\* Math.floor((minutesSinceMidnight / batchInterval) % totalBatches) + 1
CurrentBatch(minutesSinceMidnight, batchInterval, totalBatches) ==
  ((minutesSinceMidnight \div batchInterval) % totalBatches) + 1

\* the start taken from the 1-based page number: currentBatch * batchSize
StartIndexOneBased(currentBatch, batchSize) == currentBatch * batchSize

\* (currentBatch - 1) * batchSize
StartIndex(currentBatch, batchSize) == (currentBatch - 1) * batchSize

\* Math.min(startIndex + batchSize, totalTasks)
EndIndex(startIndex, batchSize, totalTasks) ==
  IF startIndex + batchSize < totalTasks
  THEN startIndex + batchSize
  ELSE totalTasks

\* tasks.slice(startIndex, endIndex)
BatchTasks(tasks, startIndex, endIndex) ==
  SubSeq(tasks, startIndex + 1, endIndex)

\* the check of the status alone
PushOutcomeStatusOnly(response) ==
  IF response.kind # "response" THEN "threw"
  ELSE IF response.status = 200 THEN "true"
  ELSE "false"

\* response && (response.status === 200 || response.data.code === 200), in
\* the try block: reading .code of a null body throws like a rejection does
PushOutcome(response) ==
  IF response.kind # "response" THEN "threw"
  ELSE IF response.status = 200 THEN "true"
  ELSE IF ~response.body THEN "threw"
  ELSE IF response.code = 200 THEN "true"
  ELSE "false"

\* no call of sendTasksInBatches or sendToQuoteDevice yet. Of a call are
\* kept: the function called and its arguments, the minute of the day, the
\* response to its push, what it computed (pageIsNaN: the page number is
\* NaN, the result of `% 0`), and its result (rejected: it threw).
NotSent ==
  [called |-> FALSE, entry |-> "", tasks |-> <<>>, minute |-> 0,
   interval |-> 0, response |-> NoResponse, pushed |-> FALSE,
   totalBatches |-> 0, currentBatch |-> 0, pageIsNaN |-> FALSE,
   startIndex |-> 0, batchTasks |-> <<>>, lines |-> <<>>, message |-> <<>>,
   result |-> FALSE, rejected |-> FALSE]

\* sendTasksInBatches(tasks, 3, intervalMinutes) called at the given minute
\* of the day, the push coming to the given response: what it computed, what
\* it pushed and what it returned. Without the environment getConfig throws
\* and the outer catch returns false; an empty list returns true unpushed.
SendTasksInBatchesV1(tasks, minute, interval, response) ==
  LET called == [NotSent EXCEPT !.called = TRUE,
                                !.entry = "sendTasksInBatches",
                                !.tasks = tasks, !.minute = minute,
                                !.interval = interval]
      totalTasks == Len(tasks)
      totalBatches == TotalBatches(totalTasks)
      currentBatch == CurrentBatch(minute, interval, totalBatches)
      startIndex == StartIndex(currentBatch, BATCH_SIZE)
      endIndex == EndIndex(startIndex, BATCH_SIZE, totalTasks)
      batchTasks == BatchTasks(tasks, startIndex, endIndex)
  IN  IF ~envOk THEN called
      ELSE IF totalTasks = 0 THEN [called EXCEPT !.result = TRUE]
      ELSE [called EXCEPT
              !.response = response, !.pushed = TRUE,
              !.totalBatches = totalBatches, !.currentBatch = currentBatch,
              !.startIndex = startIndex, !.batchTasks = batchTasks,
              !.lines = TaskLines(batchTasks, startIndex),
              !.message = FormatTasksMessage(batchTasks, startIndex),
              !.result = (PushOutcome(response) = "true")]

\* sendToQuoteDevice(tasks, batchInterval) of the first version, called at
\* the given minute of the day, the push coming to the given response.
\* getConfig is called outside the try block: without the environment the
\* call rejects. There is no test of an empty list: totalBatches is then 0,
\* `% totalBatches` gives NaN, currentBatch, startIndex and endIndex are NaN,
\* tasks.slice(NaN, NaN) is the empty page, and that page is pushed.
SendToQuoteDeviceV1(tasks, minute, interval, response) ==
  LET called == [NotSent EXCEPT !.called = TRUE,
                                !.entry = "sendToQuoteDevice",
                                !.tasks = tasks, !.minute = minute,
                                !.interval = interval]
      totalTasks == Len(tasks)
      totalBatches == TotalBatches(totalTasks)
      pageIsNaN == totalBatches = 0
      currentBatch == IF pageIsNaN THEN 0
                      ELSE CurrentBatch(minute, interval, totalBatches)
      startIndex == IF pageIsNaN THEN 0
                    ELSE StartIndex(currentBatch, BATCH_SIZE)
      endIndex == IF pageIsNaN THEN 0
                  ELSE EndIndex(startIndex, BATCH_SIZE, totalTasks)
      batchTasks == BatchTasks(tasks, startIndex, endIndex)
  IN  IF ~envOk THEN [called EXCEPT !.rejected = TRUE]
      ELSE [called EXCEPT
              !.response = response, !.pushed = TRUE,
              !.totalBatches = totalBatches, !.currentBatch = currentBatch,
              !.pageIsNaN = pageIsNaN, !.startIndex = startIndex,
              !.batchTasks = batchTasks,
              !.lines = TaskLines(batchTasks, startIndex),
              !.message = FormatTasksMessage(batchTasks, startIndex),
              !.result = (PushOutcome(response) = "true")]

----------------------------------------------------------------------------
\* errorHandler.js (lines 141-303): the error classes and errorHandler.

\* An error object: its name, and its own properties statusCode, status and
\* code; 0 and "" stand for a property the object does not have.
ErrorObject(name, statusCode, status, code) ==
  [name |-> name, statusCode |-> statusCode, status |-> status, code |-> code]

\* new AppError(message, statusCode): the name is inherited from Error, and
\* status = `${statusCode}`.startsWith('4') ? 'fail' : 'error'
AppError(statusCode) ==
  ErrorObject("Error", statusCode,
              IF Digits(statusCode)[1] = "4" THEN "fail" ELSE "error", 0)

\* super(message, 400) ... super(message, statusCode = 503)
ValidationError == AppError(400)

UnauthorizedError == AppError(401)

ForbiddenError == AppError(403)

NotFoundError == AppError(404)

RateLimitError == AppError(429)

ExternalApiError == AppError(503)

\* the errors the module's classes build
ClassErrors ==
  {AppError(500), ValidationError, UnauthorizedError, ForbiddenError,
   NotFoundError, RateLimitError, ExternalApiError}

\* errors built elsewhere and passed to next(err): a plain Error, or one of
\* a library that names it ValidationError or CastError, with or without a
\* statusCode, a status and the duplicate-key code
ForeignErrors ==
  {ErrorObject(name, statusCode, status, code) :
     name \in {"Error", "ValidationError", "CastError"},
     statusCode \in {0, 404, 422, 500},
     status \in {"", "fail", "error"},
     code \in {0, DUPLICATE_KEY}}

Errors == ClassErrors \cup ForeignErrors

\* no error handled yet
NoResponseSent ==
  [handled |-> FALSE, err |-> ErrorObject("", 0, "", 0), sends |-> 0,
   statusCode |-> 0, success |-> FALSE, status |-> ""]

\* errorHandler(err, req, res, next): the copy of err's own properties is
\* replaced for the names and the code the handler knows, then
\* res.status(error.statusCode || 500).json({success: false,
\* error: {message, status: error.status || 'error'}})
ErrorHandler(err) ==
  LET byName == IF err.name = "ValidationError" THEN ValidationError
                ELSE err
      byCast == IF err.name = "CastError" THEN NotFoundError ELSE byName
      error == IF err.code = DUPLICATE_KEY THEN ValidationError ELSE byCast
  IN  [handled |-> TRUE, err |-> err, sends |-> 1,
       statusCode |-> IF error.statusCode # 0 THEN error.statusCode ELSE 500,
       success |-> FALSE,
       status |-> IF error.status # "" THEN error.status ELSE "error"]

----------------------------------------------------------------------------
\* quote.js, fourth version (lines 742-1052): the page is pushed only when
\* the hash of the list differs from the hash kept in lastTaskHash.

\* the titles of the lists: "a", "b" and "a|b", as sequences of characters
ChangeTitles == {<<"a">>, <<"b">>, <<"a", "|", "b">>}

\* the lists handed to sendTasksInBatches
ChangeLists ==
  UNION {[1..n -> ChangeTitles] : n \in 0..MaxChangeItems}

\* String.prototype.charCodeAt for the characters of the titles
CharCode(c) ==
  CASE c = "a" -> 97
    [] c = "b" -> 98
    [] c = "|" -> 124

\* s < t as sort() without a comparator orders strings: by code units, a
\* proper prefix first
RECURSIVE StringLess(_, _)
StringLess(s, t) ==
  IF t = <<>> THEN FALSE
  ELSE IF s = <<>> THEN TRUE
  ELSE IF CharCode(Head(s)) # CharCode(Head(t))
  THEN CharCode(Head(s)) < CharCode(Head(t))
  ELSE StringLess(Tail(s), Tail(t))

\* the sorted list with the title x put in its place
RECURSIVE InsertSorted(_, _)
InsertSorted(x, sorted) ==
  IF sorted = <<>> THEN <<x>>
  ELSE IF StringLess(Head(sorted), x)
  THEN <<Head(sorted)>> \o InsertSorted(x, Tail(sorted))
  ELSE <<x>> \o sorted

\* [...tasks].sort()
RECURSIVE SortTasks(_)
SortTasks(tasks) ==
  IF tasks = <<>> THEN <<>>
  ELSE InsertSorted(Head(tasks), SortTasks(Tail(tasks)))

\* sortedTasks.join('|')
RECURSIVE JoinBar(_)
JoinBar(titles) ==
  IF titles = <<>> THEN <<>>
  ELSE IF Len(titles) = 1 THEN Head(titles)
  ELSE Head(titles) \o <<"|">> \o JoinBar(Tail(titles))

\* hash = ((hash << 5) - hash) + char; hash = hash & hash: 31 * hash + char
\* wrapped to a signed 32-bit integer (computed on 16-bit halves)
HashStep(hash, char) ==
  LET lo == hash % 65536
      hi == (hash \div 65536) % 65536
      low == 31 * lo + char
      newLo == low % 65536
      newHi == (31 * hi + low \div 65536) % 65536
  IN  IF newHi >= 32768
      THEN (newHi - 65536) * 65536 + newLo
      ELSE newHi * 65536 + newLo

\* the loop over taskString, from the hash so far
RECURSIVE HashFrom(_, _)
HashFrom(taskString, hash) ==
  IF taskString = <<>> THEN hash
  ELSE HashFrom(Tail(taskString), HashStep(hash, CharCode(Head(taskString))))

\* hash.toString()
HashToString(hash) ==
  IF hash < 0 THEN <<"-">> \o Digits(0 - hash) ELSE Digits(hash)

\* generateTaskHash(tasks)
GenerateTaskHash(tasks) ==
  HashToString(HashFrom(JoinBar(SortTasks(tasks)), 0))

\* let lastTaskHash = null
NoHash == <<>>

\* no call made yet: calls counts the calls, pushing holds the lists whose
\* push is awaited, succeeded the lists whose push has succeeded, and the
\* last call's list, what it returned and whether it skipped the push
NoChangeSends ==
  [calls |-> 0, pushing |-> <<>>, succeeded |-> {}, tasks |-> <<>>,
   ret |-> "none", skipped |-> FALSE]

----------------------------------------------------------------------------
\* The state machine.

Kind(p) == p[1]

\* the lowest free slot for an invocation of the given kind, in a singleton
FreeSlot(kind, n) ==
  LET free == {i \in 1..n : procs[<<kind, i>>].pc = "free"}
  IN  IF free = {} THEN {} ELSE {<<kind, Min(free)>>}

Init ==
  /\ now = 0
  /\ envOk \in BOOLEAN
  /\ apiCalls = <<>>
  /\ syncQueue = <<>>
  /\ isProcessingQueue = FALSE
  /\ processedEvents = <<>>
  /\ syncLock = FALSE
  /\ hookApiCalls = <<>>
  /\ hookProcessedEvents = <<>>
  /\ procs = [p \in ProcIds |-> Free]
  /\ nAdd = 0
  /\ nExec = 0
  /\ nHook = 0
  /\ runs = [via \in {"queue", "hook", "refused"} |-> [e \in EventIds |-> 0]]
  /\ recentCalls = <<>>
  /\ recentPushes = <<>>
  /\ lastOp = Op("init", NoEvent, "none", "none", FALSE)
  /\ sent = NotSent
  /\ res = NoResponseSent
  /\ lastTaskHash = NoHash
  /\ changeSends = NoChangeSends

\* the loop after the callback of a task: the 500 ms pause, or, when an
\* exception has left the catch block, the end of processSyncQueue
\* (finally: isProcessingQueue = false)
AfterTask(escaped) ==
  IF escaped THEN Free
  ELSE [Free EXCEPT !.pc = "pause", !.wakeAt = now + PAUSE_MS]

\* One pass of `while (syncQueue.length > 0)` in processSyncQueue, from the
\* loop test with the queue being q up to the next await that suspends: the
\* loop ends on an empty queue (finally: isProcessingQueue = false); else a
\* task is taken; over the rate limit it is held for the backoff; else the
\* call is recorded and getNotionTasks is awaited, which rejects at once when
\* getConfig throws (catch: callback(false), then the 500 ms pause).
LoopPass(q) ==
  IF q = <<>>
  THEN [queue |-> q, processing |-> FALSE, proc |-> Free, calls |-> apiCalls,
        taken |-> NoTask, started |-> FALSE,
        callback |-> CallbackInTry("none", FALSE), done |-> NoTask]
  ELSE LET sel == SelectTask(q)
           held == [Free EXCEPT !.task = sel.task]
           caught == CallbackInCatch(sel.task.callback)
       IN  IF IsOverRateLimit(apiCalls, now)
           THEN [queue |-> sel.rest, processing |-> TRUE,
                 proc |-> [held EXCEPT !.pc = "backoff",
                                       !.wakeAt = now + BACKOFF_MS],
                 calls |-> apiCalls, taken |-> sel.task, started |-> FALSE,
                 callback |-> CallbackInTry("none", FALSE), done |-> NoTask]
           ELSE IF envOk
           THEN [queue |-> sel.rest, processing |-> TRUE,
                 proc |-> [held EXCEPT !.pc = "fetch"],
                 calls |-> RecordApiCall(apiCalls, now),
                 taken |-> sel.task, started |-> TRUE,
                 callback |-> CallbackInTry("none", FALSE), done |-> NoTask]
           ELSE [queue |-> sel.rest, processing |-> ~caught.escaped,
                 proc |-> AfterTask(caught.escaped),
                 calls |-> RecordApiCall(apiCalls, now),
                 taken |-> sel.task, started |-> TRUE,
                 callback |-> caught, done |-> sel.task]

\* the state after the pass r of the loop instance d over the queue q, in
\* the step op carrying the event id arg and returning ret
ApplyLoop(d, q, r, op, arg, ret) ==
  /\ syncQueue' = r.queue
  /\ isProcessingQueue' = r.processing
  /\ procs' = [procs EXCEPT ![d] = r.proc]
  /\ apiCalls' = r.calls
  /\ runs' = IF r.started THEN Count(runs, "queue", r.taken.eventId) ELSE runs
  /\ recentCalls' = IF r.started THEN Append(recentCalls, now)
                                  ELSE recentCalls
  /\ lastOp' = [Op(op, arg, ret, r.callback.cb, r.taken # NoTask) EXCEPT
                  !.from = IF r.taken # NoTask THEN q ELSE <<>>,
                  !.taken = r.taken, !.started = r.started,
                  !.done = r.done, !.calls = r.callback.calls,
                  !.escaped = r.callback.escaped]

\* addSyncTask({forceSync, eventId, callback}): a processed event is reported
\* to the callback as done and not queued (a callback that throws makes the
\* call reject); else the task is pushed and processSyncQueue() is called,
\* which runs its first pass at once unless a loop is already running.
AddSyncTask(forceSync, eventId, callback) ==
  /\ UNCHANGED <<sent, res, lastTaskHash, changeSends>>
  /\ nAdd' = nAdd + 1
  /\ UNCHANGED <<now, envOk, processedEvents, syncLock, hookApiCalls,
                 hookProcessedEvents, nExec, nHook, recentPushes>>
  /\ IF eventId # NoEvent /\ IsEventProcessed(processedEvents, eventId)
     THEN /\ lastOp' =
               [Op("addSyncTask", eventId,
                   IF callback = "throws" THEN "rejected" ELSE "false",
                   IF callback = "none" THEN "none" ELSE "true", FALSE)
                  EXCEPT !.calls = IF callback = "none" THEN 0 ELSE 1]
          /\ UNCHANGED <<apiCalls, syncQueue, isProcessingQueue, procs, runs,
                         recentCalls>>
     ELSE LET q == Append(syncQueue,
                          Task(nAdd + 1, forceSync, eventId, callback))
          IN  IF LoopBusy(isProcessingQueue)
              THEN /\ syncQueue' = q
                   /\ lastOp' = Op("addSyncTask", eventId, "true", "none", FALSE)
                   /\ UNCHANGED <<apiCalls, isProcessingQueue, procs, runs,
                                  recentCalls>>
              ELSE \E d \in FreeSlot("drain", MaxDrains) :
                     ApplyLoop(d, q, LoopPass(q), "addSyncTask", eventId,
                               "true")

\* the 1 s backoff of loop instance d is over: unshift(task); continue
BackoffDone(d) ==
  /\ UNCHANGED <<sent, res, lastTaskHash, changeSends>>
  /\ procs[d].pc = "backoff"
  /\ now >= procs[d].wakeAt
  /\ LET q == Requeue(syncQueue, procs[d].task)
     IN  ApplyLoop(d, q, LoopPass(q), "backoffDone", NoEvent, "none")
  /\ UNCHANGED <<now, envOk, processedEvents, syncLock, hookApiCalls,
                 hookProcessedEvents, nAdd, nExec, nHook, recentPushes>>

\* the 500 ms pause of loop instance d is over: back to the loop test
PauseDone(d) ==
  /\ UNCHANGED <<sent, res, lastTaskHash, changeSends>>
  /\ procs[d].pc = "pause"
  /\ now >= procs[d].wakeAt
  /\ ApplyLoop(d, syncQueue, LoopPass(syncQueue), "pauseDone", NoEvent,
               "none")
  /\ UNCHANGED <<now, envOk, processedEvents, syncLock, hookApiCalls,
                 hookProcessedEvents, nAdd, nExec, nHook, recentPushes>>


\* the event recorded only inside `if (success)`
MarkProcessedOnSuccess(cache, eventId, success) ==
  IF success /\ eventId # NoEvent
  THEN AddProcessedEvent(cache, eventId)
  ELSE cache

\* the event recorded without the test of task.eventId
MarkProcessedAlways(cache, eventId, success) ==
  AddProcessedEvent(cache, eventId)

\* if (task.eventId) addProcessedEvent(task.eventId), whatever success is
MarkProcessed(cache, eventId, success) ==
  IF eventId # NoEvent THEN AddProcessedEvent(cache, eventId) ELSE cache

\* sendTasksInBatches has returned result to invocation p, leaving the lock
\* as given. The drain loop marks the event, calls the callback and starts
\* the 500 ms pause (or ends, when the callback throws in the catch block
\* too); executeSync returns the result; the webhook handler marks the event
\* and answers 200 or 500; a direct caller gets the result.
Finish(p, result, lock, op, results) ==
  /\ syncLock' = lock
  /\ \/ /\ Kind(p) = "drain"
        /\ processedEvents' =
             MarkProcessed(processedEvents, procs[p].task.eventId, result)
        /\ LET called == CallbackInTry(procs[p].task.callback, result)
           IN  /\ procs' = [procs EXCEPT ![p] = AfterTask(called.escaped)]
               /\ isProcessingQueue' =
                    (isProcessingQueue /\ ~called.escaped)
               /\ lastOp' = [Op(op, procs[p].task.eventId, "none", called.cb,
                                FALSE)
                               EXCEPT !.done = procs[p].task,
                                      !.calls = called.calls,
                                      !.escaped = called.escaped,
                                      !.forced = procs[p].task.forceSync,
                                      !.pages = procs[p].pages,
                                      !.results = results,
                                      !.total = procs[p].total]
        /\ UNCHANGED hookProcessedEvents
     \/ /\ Kind(p) = "exec"
        /\ procs' = [procs EXCEPT ![p] = Free]
        /\ lastOp' = [Op(op, NoEvent, BoolStr(result), "none", FALSE)
                        EXCEPT !.forced = procs[p].task.forceSync,
                               !.pages = procs[p].pages,
                               !.results = results,
                               !.total = procs[p].total]
        /\ UNCHANGED <<isProcessingQueue, processedEvents,
                       hookProcessedEvents>>
     \/ /\ Kind(p) = "hook"
        /\ hookProcessedEvents' =
             MarkProcessed(hookProcessedEvents, procs[p].task.eventId, result)
        /\ procs' = [procs EXCEPT ![p] = Free]
        /\ lastOp' = [Op(op, procs[p].task.eventId,
                         IF result THEN "200" ELSE "500", "none", FALSE)
                        EXCEPT !.forced = procs[p].task.forceSync,
                               !.pages = procs[p].pages,
                               !.results = results,
                               !.total = procs[p].total]
        /\ UNCHANGED <<isProcessingQueue, processedEvents>>
     \/ /\ Kind(p) = "send"
        /\ procs' = [procs EXCEPT ![p] = Free]
        /\ lastOp' = [Op(op, NoEvent, BoolStr(result), "none", FALSE)
                        EXCEPT !.forced = procs[p].task.forceSync,
                               !.pages = procs[p].pages,
                               !.results = results,
                               !.total = procs[p].total]
        /\ UNCHANGED <<isProcessingQueue, processedEvents,
                       hookProcessedEvents>>

\* getNotionTasks has resolved to a list of totalTasks items for invocation
\* p, in the step op; p calls sendTasksInBatches(tasks, 3, 2, forceSync)
FetchResolved(p, totalTasks, op) ==
  /\ UNCHANGED <<sent, res, lastTaskHash, changeSends>>
  /\ procs[p].pc = "fetch"
  /\ LET s == StartSend(syncLock, procs[p].task.forceSync, totalTasks)
     IN  IF s.done
         THEN /\ Finish(p, s.result, s.lock, op, <<>>)
              /\ UNCHANGED recentPushes
         ELSE /\ syncLock' = s.lock
              /\ procs' = [procs EXCEPT ![p].pc = "push", ![p].total = s.total,
                                        ![p].round = 0, ![p].batch = 0,
                                        ![p].allOk = TRUE,
                                        ![p].pages = <<1>>]
              /\ recentPushes' = Append(recentPushes, now)
              /\ lastOp' = [Op(op, procs[p].task.eventId, "none", "none",
                               FALSE)
                              EXCEPT !.forced = procs[p].task.forceSync]
              /\ UNCHANGED <<isProcessingQueue, processedEvents,
                             hookProcessedEvents>>
  /\ UNCHANGED <<now, envOk, apiCalls, syncQueue, hookApiCalls, nAdd, nExec,
                 nHook, runs, recentCalls>>

\* the success of the last push alone
AllSuccessLastOnly(allOk, ok) == ok

\* results.every(result => result === true), kept up push by push: allOk
\* for the results so far, ok the result pushed last
AllSuccess(allOk, ok) == allOk /\ ok

\* the Notion API has answered with the pages of totalTasks items
FetchDone(p, totalTasks) == FetchResolved(p, totalTasks, "fetchDone")

\* the Notion API call has failed (or the database has no usable status
\* property): getNotionTasks logs the error and returns []
FetchFailed(p) == FetchResolved(p, 0, "fetchFailed")

\* the axios.post of invocation p has answered (ok: status 200 or code 200;
\* else any other answer, a timeout or a network error): results.push(ok),
\* then the wait before the next page or round, or, after the last page of
\* the last round, return results.every(...) through finally
PushDone(p, ok) ==
  /\ UNCHANGED <<sent, res, lastTaskHash, changeSends>>
  /\ procs[p].pc = "push"
  /\ LET allOk == AllSuccess(procs[p].allOk, ok)
         lastBatch == procs[p].batch + 1 = procs[p].total
         results == Append(procs[p].results, ok)
     IN  IF lastBatch /\ procs[p].round = ROUNDS - 1
         THEN Finish(p, allOk, FALSE, "pushDone", results)
         ELSE /\ procs' = [procs EXCEPT
                   ![p].pc = "wait", ![p].allOk = allOk,
                   ![p].results = results,
                   ![p].wakeAt =
                      now + DynamicIntervalSeconds(procs[p].total) * 1000]
              /\ lastOp' = Op("pushDone", procs[p].task.eventId, "none",
                              "none", FALSE)
              /\ UNCHANGED <<syncLock, isProcessingQueue, processedEvents,
                             hookProcessedEvents>>
  /\ UNCHANGED <<now, envOk, apiCalls, syncQueue, hookApiCalls, nAdd, nExec,
                 nHook, runs, recentCalls, recentPushes>>

\* the wait of invocation p between two pushes is over: the next page of the
\* round, or the first page of the next round, is pushed
WaitDone(p) ==
  /\ UNCHANGED <<sent, res, lastTaskHash, changeSends>>
  /\ procs[p].pc = "wait"
  /\ now >= procs[p].wakeAt
  /\ procs' = [procs EXCEPT
        ![p].pc = "push", ![p].wakeAt = 0,
        ![p].pages = Append(@, IF procs[p].batch + 1 < procs[p].total
                               THEN procs[p].batch + 2 ELSE 1),
        ![p].batch = IF procs[p].batch + 1 < procs[p].total
                     THEN procs[p].batch + 1 ELSE 0,
        ![p].round = IF procs[p].batch + 1 < procs[p].total
                     THEN procs[p].round ELSE procs[p].round + 1]
  /\ recentPushes' = Append(recentPushes, now)
  /\ lastOp' = Op("waitDone", procs[p].task.eventId, "none", "none", FALSE)
  /\ UNCHANGED <<now, envOk, apiCalls, syncQueue, isProcessingQueue,
                 processedEvents, syncLock, hookApiCalls, hookProcessedEvents,
                 nAdd, nExec, nHook, runs, recentCalls>>

\* a try block without its catch: the exception rejects the promise
Uncaught == "rejected"

\* catch (err) { error(...); return false; } of executeSync and of
\* sendTasksInBatches: what the promise settles to when the try block threw
Caught == "false"

\* executeSync(forceSync): over the rate limit it returns false; else the
\* call is recorded and getNotionTasks awaited (a rejection, when getConfig
\* throws, is caught: return false)
ExecuteSync(forceSync) ==
  /\ UNCHANGED <<sent, res, lastTaskHash, changeSends>>
  /\ nExec' = nExec + 1
  /\ IF IsOverRateLimit(apiCalls, now)
     THEN /\ lastOp' = Op("executeSync", NoEvent, "false", "none", TRUE)
          /\ UNCHANGED <<apiCalls, procs, runs, recentCalls>>
     ELSE /\ apiCalls' = RecordApiCall(apiCalls, now)
          /\ recentCalls' = Append(recentCalls, now)
          /\ UNCHANGED runs
          /\ IF envOk
             THEN /\ \E p \in FreeSlot("exec", MaxExec) :
                       procs' = [procs EXCEPT ![p] =
                          [Free EXCEPT !.pc = "fetch",
                                       !.task = Task(0, forceSync, NoEvent, "none")]]
                  /\ lastOp' = Op("executeSync", NoEvent, "none", "none", TRUE)
             ELSE /\ lastOp' = Op("executeSync", NoEvent, Caught, "none", TRUE)
                  /\ UNCHANGED procs
  /\ UNCHANGED <<now, envOk, syncQueue, isProcessingQueue, processedEvents,
                 syncLock, hookApiCalls, hookProcessedEvents, nAdd, nHook,
                 recentPushes>>

\* sendTasksInBatches(tasks, 3, 2, forceSync) called directly with a list of
\* totalTasks items: skipped (true) when the lock is held and the call is
\* not forced (the start is done and leaves the lock held); else the lock
\* is taken; getConfig() throws without the
\* environment (catch: false; finally: syncLock = false); an empty list
\* returns true through finally; else the first page's push is in flight.
SendTasksInBatches(forceSync, totalTasks) ==
  /\ UNCHANGED <<sent, res, lastTaskHash, changeSends>>
  /\ LET s == StartSend(syncLock, forceSync, totalTasks)
         returned(ret) == [Op("sendTasksInBatches", NoEvent, ret, "none",
                              FALSE) EXCEPT !.forced = forceSync]
     IN  IF s.done /\ s.lock
         THEN /\ lastOp' = returned(BoolStr(s.result))
              /\ UNCHANGED <<syncLock, procs, recentPushes>>
         ELSE IF ~envOk
         THEN /\ syncLock' = FALSE
              /\ lastOp' = returned(Caught)
              /\ UNCHANGED <<procs, recentPushes>>
         ELSE IF s.done
         THEN /\ syncLock' = s.lock
              /\ lastOp' = returned(BoolStr(s.result))
              /\ UNCHANGED <<procs, recentPushes>>
         ELSE \E p \in FreeSlot("send", MaxSend) :
                /\ syncLock' = s.lock
                /\ procs' = [procs EXCEPT ![p] =
                     [Free EXCEPT !.pc = "push", !.total = s.total,
                                  !.pages = <<1>>,
                                  !.task = Task(0, forceSync, NoEvent, "none")]]
                /\ recentPushes' = Append(recentPushes, now)
                /\ lastOp' = returned("none")
  /\ UNCHANGED <<now, envOk, apiCalls, syncQueue, isProcessingQueue,
                 processedEvents, hookApiCalls, hookProcessedEvents, nAdd,
                 nExec, nHook, runs, recentCalls>>

\* the handler with the rate limit consulted before the dedup cache
EarlyAnswerLimitFirst(processed, overLimit) ==
  IF overLimit THEN "429" ELSE IF processed THEN "200" ELSE "none"

\* the answer of the handler's two early returns, if one is taken: first
\* the dedup check (200), then the rate limit (429)
EarlyAnswer(processed, overLimit) ==
  IF processed THEN "200" ELSE IF overLimit THEN "429" ELSE "none"

\* The webhook handler, for a request that has passed the body and signature
\* checks: 500 without the environment; 200 for a processed event; 429 over
\* the handler's own rate limit; for a database event the call is recorded
\* and the sync runs with forceSync = true; any other event is answered 200.
\* (runs counts the 429 answers of an event under "refused".)
Webhook(eventId, isDatabaseEvent) ==
  /\ UNCHANGED <<sent, res, lastTaskHash, changeSends>>
  /\ nHook' = nHook + 1
  /\ IF ~envOk
     THEN /\ lastOp' = Op("webhook", eventId, "500", "none", FALSE)
          /\ UNCHANGED <<hookApiCalls, procs, runs>>
     ELSE IF EarlyAnswer(eventId # NoEvent
                           /\ IsEventProcessed(hookProcessedEvents, eventId),
                         IsOverRateLimit(hookApiCalls, now)) = "200"
     THEN /\ lastOp' = Op("webhook", eventId, "200", "none", FALSE)
          /\ UNCHANGED <<hookApiCalls, procs, runs>>
     ELSE IF EarlyAnswer(eventId # NoEvent
                           /\ IsEventProcessed(hookProcessedEvents, eventId),
                         IsOverRateLimit(hookApiCalls, now)) = "429"
     THEN /\ lastOp' = Op("webhook", eventId, "429", "none", TRUE)
          /\ runs' = Count(runs, "refused", eventId)
          /\ UNCHANGED <<hookApiCalls, procs>>
     ELSE IF isDatabaseEvent
     THEN /\ hookApiCalls' = RecordApiCall(hookApiCalls, now)
          /\ runs' = Count(runs, "hook", eventId)
          /\ \E p \in FreeSlot("hook", MaxHook) :
               procs' = [procs EXCEPT ![p] =
                  [Free EXCEPT !.pc = "fetch",
                               !.task = Task(0, TRUE, eventId, "none")]]
          /\ lastOp' = Op("webhook", eventId, "none", "none", TRUE)
     ELSE /\ lastOp' = Op("webhook", eventId, "200", "none", FALSE)
          /\ UNCHANGED <<hookApiCalls, procs, runs>>
  /\ UNCHANGED <<now, envOk, apiCalls, syncQueue, isProcessingQueue,
                 processedEvents, syncLock, hookProcessedEvents, nAdd, nExec,
                 recentCalls, recentPushes>>

\* time passes
Advance(ms) ==
  /\ UNCHANGED <<sent, res, lastTaskHash, changeSends>>
  /\ now' = now + ms
  /\ recentCalls' = SelectSeq(recentCalls, LAMBDA ts : now + ms - ts < WINDOW_MS)
  /\ recentPushes' =
       SelectSeq(recentPushes, LAMBDA ts : now + ms - ts < WINDOW_MS)
  /\ lastOp' = Op("tick", NoEvent, "none", "none", FALSE)
  /\ UNCHANGED <<envOk, apiCalls, syncQueue, isProcessingQueue,
                 processedEvents, syncLock, hookApiCalls, hookProcessedEvents,
                 procs, nAdd, nExec, nHook, runs>>

\* recordApiCall(), called directly (the module exports it)
RecordCall ==
  /\ UNCHANGED <<sent, res, lastTaskHash, changeSends>>
  /\ apiCalls' = RecordApiCall(apiCalls, now)
  /\ recentCalls' = Append(recentCalls, now)
  /\ lastOp' = Op("recordApiCall", NoEvent, "none", "none", FALSE)
  /\ UNCHANGED <<now, envOk, syncQueue, isProcessingQueue, processedEvents,
                 syncLock, hookApiCalls, hookProcessedEvents, procs, nAdd,
                 nExec, nHook, runs, recentPushes>>

\* isOverRateLimit(), called directly (the module exports it): the filter
\* builds a new array and apiCalls stays as it is
CheckRateLimit ==
  /\ lastOp' = Op("isOverRateLimit", NoEvent,
                  BoolStr(IsOverRateLimit(apiCalls, now)), "none", FALSE)
  /\ UNCHANGED <<now, envOk, apiCalls, syncQueue, isProcessingQueue,
                 processedEvents, syncLock, hookApiCalls, hookProcessedEvents,
                 procs, nAdd, nExec, nHook, runs, recentCalls, recentPushes,
                 sent, res, lastTaskHash, changeSends>>

\* a call of the first version's sendTasksInBatches, from start to return
SendV1(tasks, minute, interval, response) ==
  /\ sent' = SendTasksInBatchesV1(tasks, minute, interval, response)
  /\ UNCHANGED <<now, envOk, apiCalls, syncQueue, isProcessingQueue,
                 processedEvents, syncLock, hookApiCalls, hookProcessedEvents,
                 procs, nAdd, nExec, nHook, runs, recentCalls, recentPushes,
                 lastOp, res, lastTaskHash, changeSends>>

\* a call of the first version's sendToQuoteDevice, from start to return
SendDevice(tasks, minute, interval, response) ==
  /\ sent' = SendToQuoteDeviceV1(tasks, minute, interval, response)
  /\ UNCHANGED <<now, envOk, apiCalls, syncQueue, isProcessingQueue,
                 processedEvents, syncLock, hookApiCalls, hookProcessedEvents,
                 procs, nAdd, nExec, nHook, runs, recentCalls, recentPushes,
                 lastOp, res, lastTaskHash, changeSends>>

\* addProcessedEvent(eventId), called directly (the module exports it)
AddEvent(eventId) ==
  /\ processedEvents' = AddProcessedEvent(processedEvents, eventId)
  /\ lastOp' = [Op("addProcessedEvent", eventId, "none", "none", FALSE)
                  EXCEPT !.from = processedEvents]
  /\ UNCHANGED <<now, envOk, apiCalls, syncQueue, isProcessingQueue, syncLock,
                 hookApiCalls, hookProcessedEvents, procs, nAdd, nExec, nHook,
                 runs, recentCalls, recentPushes, sent, res, lastTaskHash,
                 changeSends>>

\* getQueueStatus()
GetQueueStatus ==
  /\ lastOp' = [Op("getQueueStatus", NoEvent, "none", "none", FALSE) EXCEPT
                  !.status = QueueStatus(syncQueue, isProcessingQueue, apiCalls)]
  /\ UNCHANGED <<now, envOk, apiCalls, syncQueue, isProcessingQueue,
                 processedEvents, syncLock, hookApiCalls, hookProcessedEvents,
                 procs, nAdd, nExec, nHook, runs, recentCalls, recentPushes,
                 sent, res, lastTaskHash, changeSends>>

\* A call of the fourth version's sendTasksInBatches(tasks), up to its
\* return or to the await of its push: getConfig() throws without the
\* environment (false); an empty list records its hash and returns true; a
\* list whose hash is lastTaskHash returns true with no push; else the hash
\* is recorded first and the page of the minute is pushed (which page does
\* not enter the state).
SendTasksInBatchesV4(tasks) ==
  /\ LET call == [changeSends EXCEPT !.calls = @ + 1, !.tasks = tasks,
                                     !.skipped = FALSE]
         currentTaskHash == GenerateTaskHash(tasks)
     IN  IF ~envOk
         THEN /\ changeSends' = [call EXCEPT !.ret = "false"]
              /\ UNCHANGED lastTaskHash
         ELSE IF tasks = <<>>
         THEN /\ lastTaskHash' = GenerateTaskHash(<<>>)
              /\ changeSends' = [call EXCEPT !.ret = "true"]
         ELSE IF lastTaskHash = currentTaskHash
         THEN /\ changeSends' = [call EXCEPT !.ret = "true",
                                             !.skipped = TRUE]
              /\ UNCHANGED lastTaskHash
         ELSE /\ lastTaskHash' = currentTaskHash
              /\ changeSends' = [call EXCEPT !.ret = "none",
                                             !.pushing = Append(@, tasks)]
  /\ UNCHANGED <<now, envOk, apiCalls, syncQueue, isProcessingQueue,
                 processedEvents, syncLock, hookApiCalls, hookProcessedEvents,
                 procs, nAdd, nExec, nHook, runs, recentCalls, recentPushes,
                 lastOp, sent, res>>

\* the axios.post of the i-th awaited push of the fourth version has
\* answered (ok: status 200 or code 200; else any other answer or an
\* error): the call returns ok
PushDoneV4(i, ok) ==
  /\ i \in 1..Len(changeSends.pushing)
  /\ LET tasks == changeSends.pushing[i]
     IN  changeSends' =
           [changeSends EXCEPT
              !.pushing = SubSeq(@, 1, i - 1) \o SubSeq(@, i + 1, Len(@)),
              !.succeeded = IF ok THEN @ \cup {tasks} ELSE @,
              !.tasks = tasks, !.ret = BoolStr(ok), !.skipped = FALSE]
  /\ UNCHANGED <<now, envOk, apiCalls, syncQueue, isProcessingQueue,
                 processedEvents, syncLock, hookApiCalls, hookProcessedEvents,
                 procs, nAdd, nExec, nHook, runs, recentCalls, recentPushes,
                 lastOp, sent, res, lastTaskHash>>

\* Express passes err to errorHandler(err, req, res, next)
HandleError(err) ==
  /\ res' = ErrorHandler(err)
  /\ UNCHANGED <<now, envOk, apiCalls, syncQueue, isProcessingQueue,
                 processedEvents, syncLock, hookApiCalls, hookProcessedEvents,
                 procs, nAdd, nExec, nHook, runs, recentCalls, recentPushes,
                 lastOp, sent, lastTaskHash, changeSends>>

\* the clock advances by one tick
Tick == Advance(TICK_MS)

\* the clock advances by half a rate window
FineTick == Advance(FINE_TICK_MS)

----------------------------------------------------------------------------
\* Specifications.

\* syncService.js as a whole: addSyncTask calls, the drain loop, direct
\* executeSync calls and direct recordApiCall() calls.
Next ==
  \/ /\ nAdd < MaxAdd
     /\ \E forceSync \in BOOLEAN, eventId \in EventIds \cup {NoEvent} :
          AddSyncTask(forceSync, eventId, "returns")
  \/ \E d \in DrainIds : BackoffDone(d)
  \/ \E d \in DrainIds : PauseDone(d)
  \/ \E p \in DrainIds \cup ExecIds, totalTasks \in FetchSizes :
       FetchDone(p, totalTasks)
  \/ \E p \in DrainIds \cup ExecIds : FetchFailed(p)
  \/ \E p \in DrainIds \cup ExecIds, ok \in BOOLEAN : PushDone(p, ok)
  \/ \E p \in DrainIds \cup ExecIds : WaitDone(p)
  \/ /\ nExec < MaxExec
     /\ \E forceSync \in BOOLEAN : ExecuteSync(forceSync)
  \/ /\ Len(apiCalls) < MaxWindow
     /\ RecordCall
  \/ /\ now < MaxTriggerTicks * TICK_MS
     /\ Tick

Spec == Init /\ [][Next]_vars

\* The gated paths alone: the drain loop and executeSync in any
\* interleaving, with no direct call of recordApiCall; the clock also
\* advances by half windows, so that attempts of different ages share a
\* window.
NextGated ==
  \/ /\ nAdd < MaxAdd
     /\ \E forceSync \in BOOLEAN, eventId \in EventIds \cup {NoEvent} :
          AddSyncTask(forceSync, eventId, "returns")
  \/ \E d \in DrainIds : BackoffDone(d)
  \/ \E d \in DrainIds : PauseDone(d)
  \/ \E p \in DrainIds \cup ExecIds, totalTasks \in FetchSizes :
       FetchDone(p, totalTasks)
  \/ \E p \in DrainIds \cup ExecIds : FetchFailed(p)
  \/ \E p \in DrainIds \cup ExecIds, ok \in BOOLEAN : PushDone(p, ok)
  \/ \E p \in DrainIds \cup ExecIds : WaitDone(p)
  \/ /\ nExec < MaxExec
     /\ \E forceSync \in BOOLEAN : ExecuteSync(forceSync)
  \/ /\ now < MaxGatedTicks * FINE_TICK_MS
     /\ FineTick
  \/ /\ now < MaxTriggerTicks * TICK_MS
     /\ Tick

SpecGated == Init /\ [][NextGated]_vars

\* The task queue on its own: addSyncTask calls and the drain loop, with the
\* rate window also filled by direct recordApiCall() calls.
NextQueue ==
  \/ /\ nAdd < MaxQueueAdd
     /\ \E forceSync \in BOOLEAN, eventId \in EventIds \cup {NoEvent} :
          AddSyncTask(forceSync, eventId, "returns")
  \/ \E d \in DrainIds : BackoffDone(d)
  \/ \E d \in DrainIds : PauseDone(d)
  \/ \E d \in DrainIds, totalTasks \in FetchSizes : FetchDone(d, totalTasks)
  \/ \E d \in DrainIds, ok \in BOOLEAN : PushDone(d, ok)
  \/ \E d \in DrainIds : WaitDone(d)
  \/ /\ Len(apiCalls) < MaxWindow
     /\ RecordCall
  \/ /\ now < MaxTicks * TICK_MS
     /\ Tick

SpecQueue == Init /\ [][NextQueue]_vars

\* The triggers that call sendTasksInBatches outside the queue: direct
\* executeSync calls and webhook requests, sharing quote.js's syncLock.
NextTriggers ==
  \/ /\ nExec < MaxExec
     /\ \E forceSync \in BOOLEAN : ExecuteSync(forceSync)
  \/ /\ nHook < MaxHook
     /\ \E eventId \in EventIds \cup {NoEvent}, isDatabaseEvent \in BOOLEAN :
          Webhook(eventId, isDatabaseEvent)
  \/ \E p \in ExecIds \cup HookIds, totalTasks \in FetchSizes :
       FetchDone(p, totalTasks)
  \/ \E p \in ExecIds \cup HookIds, ok \in BOOLEAN : PushDone(p, ok)
  \/ \E p \in ExecIds \cup HookIds : WaitDone(p)
  \/ /\ now < MaxTriggerTicks * TICK_MS
     /\ Tick

SpecTriggers == Init /\ [][NextTriggers]_vars

\* The orchestrator boundary: executeSync and direct calls of
\* sendTasksInBatches, with every outcome of the fetch and of the pushes,
\* with and without the environment.
NextSend ==
  \/ /\ nExec < MaxExec
     /\ \E forceSync \in BOOLEAN : ExecuteSync(forceSync)
  \/ \E forceSync \in BOOLEAN, totalTasks \in FetchSizes :
       SendTasksInBatches(forceSync, totalTasks)
  \/ \E p \in ExecIds, totalTasks \in FetchSizes : FetchDone(p, totalTasks)
  \/ \E p \in ExecIds : FetchFailed(p)
  \/ \E p \in ExecIds \cup SendIds, ok \in BOOLEAN : PushDone(p, ok)
  \/ \E p \in ExecIds \cup SendIds : WaitDone(p)
  \/ /\ now < MaxTriggerTicks * TICK_MS
     /\ Tick

SpecSend == Init /\ [][NextSend]_vars

\* One direct send at a time, of lists of up to three pages, run to its
\* end through the three rounds.
NextRounds ==
  \/ \E forceSync \in BOOLEAN, totalTasks \in RoundSizes :
       SendTasksInBatches(forceSync, totalTasks)
  \/ \E p \in SendIds, ok \in BOOLEAN : PushDone(p, ok)
  \/ \E p \in SendIds : WaitDone(p)
  \/ /\ now < MaxRoundTicks * TICK_MS
     /\ Tick

SpecRounds == Init /\ [][NextRounds]_vars

\* The webhook handler on its own: requests with and without an event id,
\* for database events and others, their fetches and pushes with every
\* outcome, and the clock advancing by half windows and by whole ticks.
NextHook ==
  \/ /\ nHook < MaxHookCalls
     /\ \E eventId \in EventIds \cup {NoEvent}, isDatabaseEvent \in BOOLEAN :
          Webhook(eventId, isDatabaseEvent)
  \/ \E p \in HookIds, totalTasks \in FetchSizes : FetchDone(p, totalTasks)
  \/ \E p \in HookIds : FetchFailed(p)
  \/ \E p \in HookIds, ok \in BOOLEAN : PushDone(p, ok)
  \/ \E p \in HookIds : WaitDone(p)
  \/ /\ now < MaxGatedTicks * FINE_TICK_MS
     /\ FineTick
  \/ /\ now < MaxTriggerTicks * TICK_MS
     /\ Tick

SpecHook == Init /\ [][NextHook]_vars

\* The fourth version of quote.js on its own: calls of sendTasksInBatches
\* and the answers to their pushes, in any interleaving.
NextChange ==
  \/ /\ changeSends.calls < MaxChangeCalls
     /\ \E tasks \in ChangeLists : SendTasksInBatchesV4(tasks)
  \/ \E i \in 1..MaxChangeCalls, ok \in BOOLEAN : PushDoneV4(i, ok)

SpecChange == Init /\ [][NextChange]_vars

\* The rotation interval: direct executeSync calls whose fetch returns lists
\* of every length up to MaxFetchItems, so that page counts up to
\* TotalBatches(MaxFetchItems) set an interval.
NextInterval ==
  \/ /\ nExec < MaxExec
     /\ \E forceSync \in BOOLEAN : ExecuteSync(forceSync)
  \/ \E p \in ExecIds, totalTasks \in 0..MaxFetchItems :
       FetchDone(p, totalTasks)
  \/ \E p \in ExecIds, ok \in BOOLEAN : PushDone(p, ok)
  \/ \E p \in ExecIds : WaitDone(p)
  \/ /\ now < MaxTriggerTicks * TICK_MS
     /\ Tick

SpecInterval == Init /\ [][NextInterval]_vars

\* The rate limiter on its own, on a clock fine enough to have calls at
\* different ages inside one window.
NextRate ==
  \/ /\ Len(apiCalls) < MaxWindow
     /\ RecordCall
  \/ /\ now < MaxRateTicks * FINE_TICK_MS
     /\ FineTick

SpecRate == Init /\ [][NextRate]_vars

\* The first version of quote.js on its own: calls of sendTasksInBatches
\* with every list, minute, interval and response of the bounded sets.
NextPage ==
  \E tasks \in ItemLists, minute \in 0..MaxMinute, interval \in Intervals,
     response \in Responses :
    SendV1(tasks, minute, interval, response)

SpecPage == Init /\ [][NextPage]_vars

\* The task queue under observation: getQueueStatus and isOverRateLimit
\* calls between the steps of addSyncTask calls and the drain loop.
NextStatus ==
  \/ /\ nAdd < MaxAdd
     /\ \E forceSync \in BOOLEAN, eventId \in EventIds \cup {NoEvent} :
          AddSyncTask(forceSync, eventId, "returns")
  \/ \E d \in DrainIds : BackoffDone(d)
  \/ \E d \in DrainIds : PauseDone(d)
  \/ \E d \in DrainIds, totalTasks \in FetchSizes : FetchDone(d, totalTasks)
  \/ \E d \in DrainIds, ok \in BOOLEAN : PushDone(d, ok)
  \/ \E d \in DrainIds : WaitDone(d)
  \/ /\ Len(apiCalls) < MaxWindow
     /\ RecordCall
  \/ GetQueueStatus
  \/ CheckRateLimit
  \/ /\ now < MaxTriggerTicks * TICK_MS
     /\ Tick

SpecStatus == Init /\ [][NextStatus]_vars

\* The dedup cache on its own: direct addProcessedEvent calls.
NextCache == \E eventId \in CacheIds : AddEvent(eventId)

SpecCache == Init /\ [][NextCache]_vars

\* The page shown over the day: a first call of sendTasksInBatches or of
\* sendToQuoteDevice in the first minutes of the day, and then the same call
\* again each time one rotation interval has gone by, through the day and
\* over midnight.
NextRotation ==
  \/ /\ ~sent.called
     /\ \E tasks \in RotationLists, minute \in 0..MaxMinute,
           interval \in Intervals :
          SendV1(tasks, minute, interval, Accepted)
  \/ /\ ~sent.called
     /\ \E tasks \in RotationLists, minute \in 0..MaxMinute,
           interval \in Intervals :
          SendDevice(tasks, minute, interval, Accepted)
  \/ /\ sent.entry = "sendTasksInBatches"
     /\ SendV1(sent.tasks, (sent.minute + sent.interval) % MINUTES_PER_DAY,
               sent.interval, Accepted)
  \/ /\ sent.entry = "sendToQuoteDevice"
     /\ SendDevice(sent.tasks,
                   (sent.minute + sent.interval) % MINUTES_PER_DAY,
                   sent.interval, Accepted)

SpecRotation == Init /\ [][NextRotation]_vars

\* a timer of some invocation has not fired yet
TimerPending ==
  \E p \in ProcIds :
    procs[p].pc \in {"backoff", "pause", "wait"} /\ procs[p].wakeAt > now

\* The task queue with callbacks that return and callbacks that throw, on a
\* clock that goes on while a timer is pending; direct recordApiCall() calls
\* stop when the clock has reached its bound.
NextLive ==
  \/ /\ nAdd < MaxAdd
     /\ \E forceSync \in BOOLEAN, eventId \in EventIds \cup {NoEvent},
           callback \in {"returns", "throws"} :
          AddSyncTask(forceSync, eventId, callback)
  \/ \E d \in DrainIds : BackoffDone(d)
  \/ \E d \in DrainIds : PauseDone(d)
  \/ \E d \in DrainIds, totalTasks \in FetchSizes : FetchDone(d, totalTasks)
  \/ \E d \in DrainIds, ok \in BOOLEAN : PushDone(d, ok)
  \/ \E d \in DrainIds : WaitDone(d)
  \/ /\ Len(apiCalls) < MaxWindow
     /\ now < MaxTriggerTicks * TICK_MS
     /\ RecordCall
  \/ /\ now < MaxTriggerTicks * TICK_MS \/ TimerPending
     /\ Tick

\* The event loop runs every continuation that is ready (a timer that has
\* fired, an HTTP call that has answered), every HTTP call answers, and time
\* advances while a timer is pending.
Fairness ==
  /\ \A d \in DrainIds :
       /\ WF_vars(BackoffDone(d))
       /\ WF_vars(PauseDone(d))
       /\ WF_vars(\E totalTasks \in FetchSizes : FetchDone(d, totalTasks))
       /\ WF_vars(\E ok \in BOOLEAN : PushDone(d, ok))
       /\ WF_vars(WaitDone(d))
  /\ WF_vars(TimerPending /\ Tick)

SpecLive == Init /\ [][NextLive]_vars /\ Fairness

\* The error handler on its own: errors of the module's classes and errors
\* built elsewhere, handled one after the other.
NextError == \E err \in Errors : HandleError(err)

SpecError == Init /\ [][NextError]_vars

----------------------------------------------------------------------------
\* Properties.

\* C1: at most one task of the queue is in flight (taken from the queue and
\* not yet completed) after every step; the loop takes a task only when no
\* task is being fetched or sent; and an addSyncTask that arrives while
\* isProcessingQueue is true takes no task and starts nothing.
C1_OneTaskInFlight ==
  [][/\ Cardinality({d \in DrainIds :
          procs'[d].pc \in {"backoff", "fetch", "push", "wait"}}) <= 1
     /\ lastOp'.taken # NoTask =>
          \A d \in DrainIds : procs[d].pc \notin {"fetch", "push", "wait"}
     /\ (isProcessingQueue /\ lastOp'.op = "addSyncTask") =>
          /\ lastOp'.taken = NoTask
          /\ procs' = procs]_vars

\* a task is being fetched and the addSyncTask that just returned has left
\* its task in the queue
C1_Witness ==
  /\ lastOp.op = "addSyncTask"
  /\ lastOp.ret = "true"
  /\ syncQueue # <<>>
  /\ \E d \in DrainIds : procs[d].pc = "fetch"

\* C2: no two invocations of sendTasksInBatches are at once between taking
\* syncLock and finishing their pushes.
C2_OneDelivery ==
  Cardinality({p \in ProcIds : procs[p].pc \in {"push", "wait"}}) <= 1

\* C3: the sync of an event id is run at most once, however the triggers
\* that carry it interleave with the drain loop or the webhook handler.
C3_ExactlyOnce ==
  \A via \in {"queue", "hook"}, e \in EventIds : runs[via][e] <= 1

\* C4: an addSyncTask carrying an event id that is in the dedup cache returns
\* false, calls its callback with true, and leaves the queue, the rate
\* window, the draining flag and every invocation as they were: no fetch and
\* no push.
C4_DuplicateIsNoOp ==
  [][(/\ lastOp'.op = "addSyncTask"
      /\ lastOp'.arg # NoEvent
      /\ \E i \in DOMAIN processedEvents : processedEvents[i] = lastOp'.arg)
     => /\ lastOp'.ret = "false"
        /\ lastOp'.cb = "true"
        /\ UNCHANGED <<syncQueue, apiCalls, isProcessingQueue, procs, runs,
                       recentCalls, recentPushes, processedEvents>>]_vars

\* an addSyncTask was just refused for an event whose task ran earlier
C4_Witness ==
  /\ lastOp.op = "addSyncTask"
  /\ lastOp.ret = "false"
  /\ lastOp.arg # NoEvent
  /\ runs["queue"][lastOp.arg] > 0

\* C5: the task the drain loop takes is the earliest-enqueued task with
\* forceSync = true of the queue if there is one, else the head of the
\* queue; the other tasks stay in the queue in their order.
C5_ForcedFirst ==
  lastOp.taken # NoTask =>
    LET q == lastOp.from
        forced == {i \in DOMAIN q : q[i].forceSync}
    IN  /\ q # <<>>
        /\ IF forced # {}
           THEN /\ lastOp.taken \in {q[i] : i \in forced}
                /\ \A i \in forced : lastOp.taken.id <= q[i].id
           ELSE lastOp.taken = q[1]
        /\ syncQueue = SelectSeq(q, LAMBDA t : t # lastOp.taken)

\* from the queue [A (not forced), B (not forced), C (forced)] the loop has
\* taken C
C5_Witness ==
  /\ Len(lastOp.from) = 3
  /\ ~lastOp.from[1].forceSync
  /\ ~lastOp.from[2].forceSync
  /\ lastOp.from[3].forceSync
  /\ lastOp.taken = lastOp.from[3]
  /\ lastOp.started

\* C6: when the sync of a queued task starts, no task with the same forced
\* flag that was enqueued before it is still waiting (in the queue or held
\* for a backoff): tasks with the same flag start in the order of their
\* addSyncTask calls.
C6_FifoAmongEquals ==
  lastOp.started =>
    \A t \in {syncQueue[i] : i \in DOMAIN syncQueue} \cup
             {procs[d].task : d \in {x \in DrainIds : procs[x].pc = "backoff"}} :
      t.forceSync = lastOp.taken.forceSync => t.id > lastOp.taken.id

\* a task that was put back after a backoff has started, ahead of a task
\* with the same flag that was enqueued during the backoff
C6_Witness ==
  /\ lastOp.op = "backoffDone"
  /\ lastOp.started
  /\ \E i \in DOMAIN syncQueue :
       /\ syncQueue[i].forceSync = lastOp.taken.forceSync
       /\ syncQueue[i].id > lastOp.taken.id

\* C7: a sync attempted by the drain loop or by executeSync when the calls
\* recorded in the trailing window number MAX_CALLS_PER_MINUTE or more
\* records no call, starts no fetch and makes no push.
C7_OverLimitNoWork ==
  [][(/\ lastOp'.attempt
      /\ lastOp'.op # "webhook"
      /\ Len(recentCalls) >= MAX_CALLS_PER_MINUTE)
     => /\ apiCalls' = apiCalls
        /\ recentCalls' = recentCalls
        /\ recentPushes' = recentPushes
        /\ ~lastOp'.started
        /\ \A p \in ProcIds :
             procs'[p].pc \in {"fetch", "push"} => procs'[p] = procs[p]]_vars

\* executeSync has just returned false over the limit, with the environment
\* set, while the drain loop holds a task for the backoff
C7_Witness ==
  /\ envOk
  /\ lastOp.op = "executeSync"
  /\ lastOp.ret = "false"
  /\ Len(recentCalls) >= MAX_CALLS_PER_MINUTE
  /\ \E d \in DrainIds : procs[d].pc = "backoff"

\* C8: the pushes made to the device in the trailing window never number
\* more than MAX_CALLS_PER_MINUTE.
C8_PushesBounded == Len(recentPushes) <= MAX_CALLS_PER_MINUTE

\* C9: isOverRateLimit() is true exactly when the calls recorded less than
\* 60 000 ms ago number MAX_CALLS_PER_MINUTE or more.
C9_OverLimitIffWindowFull ==
  IsOverRateLimit(apiCalls, now) <=>
    Cardinality({i \in DOMAIN recentCalls : now - recentCalls[i] < WINDOW_MS})
      >= MAX_CALLS_PER_MINUTE

\* MAX_CALLS_PER_MINUTE calls recorded inside one window are all 60 000 ms
\* old or older, still in apiCalls, and isOverRateLimit() is false again
C9_Witness ==
  /\ Len(apiCalls) >= MAX_CALLS_PER_MINUTE
  /\ apiCalls[Len(apiCalls)] - apiCalls[1] < WINDOW_MS
  /\ \A i \in DOMAIN apiCalls : now - apiCalls[i] >= WINDOW_MS
  /\ ~IsOverRateLimit(apiCalls, now)

\* C10: when sendTasksInBatches has returned for a queued task with an event
\* id, true or false, that event id is in the dedup cache.
C10_EventRecorded ==
  (/\ lastOp.op \in {"fetchDone", "pushDone"}
   /\ lastOp.cb # "none"
   /\ lastOp.arg # NoEvent)
  => \E i \in DOMAIN processedEvents : processedEvents[i] = lastOp.arg

\* the last push of a task with an event id has failed, the callback was
\* called with false, and the event id is in the cache
C10_Witness ==
  /\ lastOp.op = "pushDone"
  /\ lastOp.cb = "false"
  /\ lastOp.arg # NoEvent
  /\ \E i \in DOMAIN processedEvents : processedEvents[i] = lastOp.arg

\* C11: when the fetch of the items fails, the outcome is false (the
\* callback is called with false, executeSync returns false) and no push is
\* made.
C11_FetchFailureIsFalse ==
  lastOp.op = "fetchFailed" =>
    /\ lastOp.cb # "true"
    /\ lastOp.ret # "true"
    /\ \A p \in ProcIds : procs[p].pc # "push"

\* C12: the push is reported as success exactly when axios resolved with
\* status 200 or with a body whose code is 200; any other response and any
\* rejection gives false; sendTasksInBatches returns that outcome.
C12_PushOutcome ==
  sent.pushed =>
    /\ sent.result \in BOOLEAN
    /\ sent.result <=>
         /\ sent.response.kind = "response"
         /\ \/ sent.response.status = 200
            \/ sent.response.body /\ sent.response.code = 200

\* a push answered with a status other than 200 and body code 200 succeeded
C12_Witness ==
  /\ sent.pushed
  /\ sent.result
  /\ sent.response.status # 200

\* C16: for a list of L >= 1 items and page size P, the pages number
\* ceil(L / P); the page pushed is items[k*P .. min((k+1)*P, L)) for its
\* 0-based index k; and the pages 0 .. ceil(L/P)-1, in order, hold every
\* item once, in the list's order, 1 to P items each (the slicing for every
\* P up to MaxPageSize, the call with the P = 3 the code passes).
C16_PagesPartitionList ==
  sent.pushed =>
    LET items == sent.tasks
        L == Len(items)
        P == BATCH_SIZE
        n == sent.totalBatches
        k == sent.currentBatch - 1
    IN  /\ (n - 1) * P < L
        /\ L <= n * P
        /\ k \in 0..(n - 1)
        /\ sent.startIndex = k * P
        /\ Len(sent.batchTasks) = (IF (k + 1) * P < L THEN (k + 1) * P ELSE L)
                                    - k * P
        /\ \A j \in DOMAIN sent.batchTasks :
             sent.batchTasks[j] = items[k * P + j]
        /\ \A size \in 1..MaxPageSize :
             LET pages == CHOOSE m \in 1..L : (m - 1) * size < L /\ L <= m * size
                 Slice(b) == BatchTasks(items, StartIndex(b, size),
                                        EndIndex(StartIndex(b, size), size, L))
             IN  /\ \A b \in 1..pages :
                      /\ Len(Slice(b)) \in 1..size
                      /\ b < pages => Len(Slice(b)) = size
                      /\ \A j \in DOMAIN Slice(b) :
                           Slice(b)[j] = items[(b - 1) * size + j]
                 /\ (pages - 1) * size + Len(Slice(pages)) = L

\* the third and last page of a list of seven items was pushed: one item
C16_Witness ==
  /\ sent.pushed
  /\ sent.totalBatches = 3
  /\ sent.currentBatch = 3
  /\ Len(sent.batchTasks) = 1

\* C17: two calls in a row with the same items and two minutes of the same
\* rotation slot (minute div interval) push the same page: nothing but the
\* items and the clock decides the page.
C17_PageByClockOnly ==
  [][(/\ sent.pushed
      /\ sent'.pushed
      /\ sent'.tasks = sent.tasks
      /\ sent'.interval = sent.interval
      /\ sent'.minute \div sent'.interval = sent.minute \div sent.interval)
     => /\ sent'.currentBatch = sent.currentBatch
        /\ sent'.batchTasks = sent.batchTasks]_vars

\* a page other than the first was pushed at a minute that is not the first
\* of its rotation slot
C17_Witness ==
  /\ sent.pushed
  /\ sent.minute % sent.interval # 0
  /\ sent.currentBatch > 1

\* C18: the j-th line (0-based) of the page with index k carries the number
\* k*P + j + 1, the place of its item in the whole list; over all pages the
\* numbers are 1..L, each once.
C18_GlobalNumbers ==
  sent.pushed =>
    LET items == sent.tasks
        L == Len(items)
        P == BATCH_SIZE
        k == sent.currentBatch - 1
        Page(b) == BatchTasks(items, StartIndex(b, P),
                              EndIndex(StartIndex(b, P), P, L))
        Lines(b) == TaskLines(Page(b), StartIndex(b, P))
        places == {<<b, j>> \in (1..sent.totalBatches) \X (1..P) :
                     j \in DOMAIN Lines(b)}
    IN  /\ Len(sent.lines) = Len(sent.batchTasks)
        /\ \A j \in DOMAIN sent.lines :
             /\ sent.lines[j].label = k * P + (j - 1) + 1
             /\ sent.batchTasks[j] = items[sent.lines[j].label]
        /\ {Lines(x[1])[x[2]].label : x \in places} = 1..L
        /\ Cardinality(places) = L

\* the second page was pushed and its first line carries the number 4
C18_Witness ==
  /\ sent.pushed
  /\ sent.currentBatch = 2
  /\ sent.lines[1].label = 4

\* C19: the message of a pushed page is at most maxMessageLength characters
\* long, and each item's text in it at most 11 characters plus the ellipsis.
C19_MessageWithinLimit ==
  sent.pushed =>
    /\ Len(sent.message) <= MAX_MESSAGE_LENGTH
    /\ \A j \in DOMAIN sent.lines :
         Len(sent.lines[j].text) <= ITEM_CAP + Len(Ellipsis)

\* a full page of items over the cap was pushed, each cut to 11 characters
\* and the ellipsis
C19_Witness ==
  /\ sent.pushed
  /\ Len(sent.lines) = BATCH_SIZE
  /\ \A j \in DOMAIN sent.lines :
       /\ Len(sent.batchTasks[j]) > ITEM_CAP
       /\ Len(sent.lines[j].text) = ITEM_CAP + Len(Ellipsis)

\* C13: the dedup cache never holds more than MAX_CACHE_SIZE identifiers
\* (nor one identifier twice), whatever identifiers addProcessedEvent is
\* called with.
C13_CacheBounded ==
  /\ Len(processedEvents) <= MAX_CACHE_SIZE
  /\ \A i, j \in DOMAIN processedEvents :
       processedEvents[i] = processedEvents[j] => i = j

\* addProcessedEvent was called with a new identifier on a full cache
C13_Witness ==
  /\ lastOp.op = "addProcessedEvent"
  /\ Len(lastOp.from) = MAX_CACHE_SIZE
  /\ \A i \in DOMAIN lastOp.from : lastOp.from[i] # lastOp.arg

\* C14: after addProcessedEvent on a cache of MAX_CACHE_SIZE identifiers, the
\* floor(MAX_CACHE_SIZE / 2) earliest-inserted ones are gone (but for the new
\* identifier itself), all later ones are kept in their order, and the new
\* identifier is present.
C14_OldestHalfEvicted ==
  (lastOp.op = "addProcessedEvent" /\ Len(lastOp.from) = MAX_CACHE_SIZE) =>
    LET old == lastOp.from
        half == MAX_CACHE_SIZE \div 2
        present == {processedEvents[i] : i \in DOMAIN processedEvents}
        later == [i \in 1..(MAX_CACHE_SIZE - half) |-> old[half + i]]
    IN  /\ \A i \in 1..half : old[i] # lastOp.arg => old[i] \notin present
        /\ \A i \in (half + 1)..MAX_CACHE_SIZE : old[i] \in present
        /\ lastOp.arg \in present
        /\ processedEvents =
             IF \E i \in DOMAIN later : later[i] = lastOp.arg
             THEN later
             ELSE Append(later, lastOp.arg)

\* the identifier inserted after MAX_CACHE_SIZE distinct ones is present and
\* the first inserted one is absent
C14_Witness ==
  /\ lastOp.op = "addProcessedEvent"
  /\ Len(lastOp.from) = MAX_CACHE_SIZE
  /\ Len(processedEvents) = MAX_CACHE_SIZE - (MAX_CACHE_SIZE \div 2) + 1
  /\ processedEvents[Len(processedEvents)] = lastOp.arg
  /\ \A i \in DOMAIN processedEvents : processedEvents[i] # lastOp.from[1]

\* C15: an addSyncTask without an event id returns true and appends its task
\* to the queue whatever the cache holds, and no step made for a task without
\* an event id changes the cache.
C15_NoIdNoDedup ==
  [][/\ (lastOp'.op = "addSyncTask" /\ lastOp'.arg = NoEvent) =>
          /\ lastOp'.ret = "true"
          /\ \E forceSync \in BOOLEAN :
               LET q == Append(syncQueue,
                               Task(nAdd', forceSync, NoEvent, "returns"))
               IN  IF lastOp'.taken = NoTask
                   THEN syncQueue' = q
                   ELSE lastOp'.from = q
     /\ lastOp'.arg = NoEvent => processedEvents' = processedEvents]_vars

\* a task without an event id was accepted while the cache holds an event
C15_Witness ==
  /\ lastOp.op = "addSyncTask"
  /\ lastOp.arg = NoEvent
  /\ lastOp.ret = "true"
  /\ processedEvents # <<>>

\* C20: getQueueStatus changes nothing of the queue, the draining flag, the
\* rate window, the dedup cache or any invocation, and returns the length of
\* the queue and the value of the flag.
C20_StatusIsPure ==
  [][lastOp'.op = "getQueueStatus" =>
       /\ UNCHANGED <<syncQueue, isProcessingQueue, apiCalls, processedEvents,
                      procs, syncLock, now, runs, recentCalls, recentPushes>>
       /\ lastOp'.status.queueLength = Len(syncQueue)
       /\ lastOp'.status.isProcessing = isProcessingQueue
       /\ lastOp'.status.recentApiCalls = Len(apiCalls)]_vars

\* getQueueStatus has returned while the loop is draining and a task waits
C20_Witness ==
  /\ lastOp.op = "getQueueStatus"
  /\ lastOp.status.queueLength > 0
  /\ lastOp.status.isProcessing
  /\ syncQueue # <<>>

\* C21: errorHandler answers every error with exactly one response, whose
\* HTTP status is the error's statusCode (500 when it has none), whose
\* success is false and whose error.status is 'fail' for a 4xx status code
\* and 'error' otherwise; the classes carry their fixed status codes.
C21_ErrorResponse ==
  /\ ValidationError.statusCode = 400
  /\ UnauthorizedError.statusCode = 401
  /\ ForbiddenError.statusCode = 403
  /\ NotFoundError.statusCode = 404
  /\ RateLimitError.statusCode = 429
  /\ ExternalApiError.statusCode = 503
  /\ res.handled =>
       LET statusCode == IF res.err.statusCode # 0 THEN res.err.statusCode
                         ELSE 500
       IN  /\ res.sends = 1
           /\ res.statusCode = statusCode
           /\ res.success = FALSE
           /\ res.status = IF statusCode \in 400..499 THEN "fail" ELSE "error"

\* the task with the given id waits in the queue or is held by the loop
Pending(id) ==
  \/ \E i \in DOMAIN syncQueue : syncQueue[i].id = id
  \/ \E d \in DrainIds :
       /\ procs[d].pc \in {"backoff", "fetch", "push", "wait"}
       /\ procs[d].task.id = id

\* the execution of the task with the given id has just ended and its
\* callback was called
Executed(id) == lastOp.done.id = id /\ lastOp.calls > 0

\* C22: a task taken over the rate limit is held without its callback being
\* called; after the backoff it is put back at the head of the queue; and it
\* is started later.
C22_RateLimitedStaysPending ==
  /\ [][(lastOp'.taken # NoTask /\ ~lastOp'.started) =>
          /\ lastOp'.calls = 0
          /\ lastOp'.done = NoTask
          /\ \E d \in DrainIds :
               procs'[d].pc = "backoff" /\ procs'[d].task = lastOp'.taken]_vars
  /\ [][lastOp'.op = "backoffDone" =>
          \E d \in DrainIds :
            /\ procs[d].pc = "backoff"
            /\ IF lastOp'.taken # NoTask
               THEN lastOp'.from = <<procs[d].task>> \o syncQueue
               ELSE FALSE]_vars
  /\ \A id \in 1..MaxAdd :
       (\E d \in DrainIds : procs[d].pc = "backoff" /\ procs[d].task.id = id)
         ~> (lastOp.started /\ lastOp.taken.id = id)

\* C23: every task that addSyncTask has queued is executed and its callback
\* called, sooner or later.
C23_EveryTaskRuns == \A id \in 1..MaxAdd : Pending(id) ~> Executed(id)

\* C24: when the execution of a task throws (getNotionTasks rejects), the
\* callback is called with false and the loop goes on: it is still draining
\* whenever tasks are left in the queue.
C24_FailureKeepsDraining ==
  (lastOp.started /\ lastOp.done # NoTask) =>
    /\ lastOp.cb = "false"
    /\ syncQueue # <<>> => isProcessingQueue

\* C25: a task selection that is not the first of its processSyncQueue call
\* comes at the end of the 500 ms pause.
C25_PauseBeforeSelection ==
  lastOp.taken # NoTask => lastOp.op \in {"addSyncTask", "pauseDone"}

\* C26: right after isOverRateLimit or recordApiCall has returned, apiCalls
\* holds no timestamp that is 60 000 ms old or older, and the recentApiCalls
\* of getQueueStatus is the number of calls of the trailing 60 000 ms.
C26_WindowPurged ==
  /\ (lastOp.op \in {"isOverRateLimit", "recordApiCall"} \/ lastOp.attempt) =>
       \A i \in DOMAIN apiCalls : now - apiCalls[i] < WINDOW_MS
  /\ lastOp.op = "getQueueStatus" =>
       lastOp.status.recentApiCalls = Len(recentCalls)

\* C27: for a list of one item or more, the page number is
\* ((m div r) mod T) + 1 for the minute m, the interval r and the T pages,
\* it lies in 1..T, and the start index (page - 1) * 3 is an index of the
\* list.
C27_PageInRange ==
  (sent.pushed /\ sent.tasks # <<>>) =>
    LET T == sent.totalBatches
        slot == sent.minute \div sent.interval
    IN  /\ T >= 1
        /\ ~sent.pageIsNaN
        /\ sent.currentBatch = (slot - T * (slot \div T)) + 1
        /\ sent.currentBatch \in 1..T
        /\ sent.startIndex = (sent.currentBatch - 1) * BATCH_SIZE
        /\ sent.startIndex \in 0..(Len(sent.tasks) - 1)
        /\ sent.batchTasks # <<>>

\* the last page of several was pushed in the last minute of the day
C27_Witness ==
  /\ sent.pushed
  /\ sent.minute = MINUTES_PER_DAY - 1
  /\ sent.totalBatches > 1
  /\ sent.currentBatch = sent.totalBatches

\* C28: of two calls one rotation interval apart with the same list, the
\* second pushes the page after the first one's, page 1 after the last
\* page, at every time of the day and over midnight.
C28_PageAdvances ==
  [][(/\ sent.pushed
      /\ sent'.pushed
      /\ sent.tasks # <<>>
      /\ sent'.tasks = sent.tasks
      /\ sent'.interval = sent.interval
      /\ sent'.minute = (sent.minute + sent.interval) % MINUTES_PER_DAY)
     => sent'.currentBatch = (sent.currentBatch % sent.totalBatches) + 1]_vars

\* C29: for an empty list a call computes 0 pages and an empty page, and no
\* page number from `% 0`.
C29_EmptyListWellDefined ==
  (sent.called /\ ~sent.rejected /\ envOk /\ sent.tasks = <<>>) =>
    /\ sent.totalBatches = 0
    /\ sent.batchTasks = <<>>
    /\ ~sent.pageIsNaN

\* C30: for every totalPages >= 1 the rotation interval in seconds is
\* max(floor(300 / totalPages), 5): after a push that is followed by a wait,
\* the wait lasts that many seconds, which is at least 5 and at most the
\* interval of any smaller page count.
C30_IntervalByPages ==
  \A p \in ExecIds :
    (lastOp.op = "pushDone" /\ procs[p].pc = "wait") =>
      LET totalPages == procs[p].total
          seconds == (procs[p].wakeAt - now) \div 1000
          floored == 300 \div totalPages
      IN  /\ procs[p].wakeAt - now = seconds * 1000
          /\ seconds = IF floored > 5 THEN floored ELSE 5
          /\ seconds >= 5
          /\ \A fewer \in 1..totalPages :
                DynamicIntervalSeconds(fewer) >= seconds

\* C31: no exception crosses the orchestrator boundary: every call of
\* executeSync and of sendTasksInBatches that returns at once, and every
\* invocation of them that ends after its pushes, settles to true or false,
\* whatever the fetch and the pushes did and with or without the
\* environment; none is rejected.
C31_BooleanOutcome ==
  [][/\ lastOp'.ret # "rejected"
     /\ (lastOp'.op \in {"executeSync", "sendTasksInBatches"} /\ procs' = procs)
          => lastOp'.ret \in {"true", "false"}
     /\ \A p \in ExecIds \cup SendIds :
          (procs[p].pc # "free" /\ procs'[p].pc = "free")
            => lastOp'.ret \in {"true", "false"}]_vars

\* sendTasksInBatches was called without the environment: getConfig() threw
\* inside the try block and the call returned false
C31_Witness ==
  /\ ~envOk
  /\ lastOp.op = "sendTasksInBatches"
  /\ lastOp.ret = "false"

\* C32: a call of sendTasksInBatches that is not forced and arrives while
\* syncLock is held returns true, pushes nothing, starts no send and leaves
\* syncLock held.
C32_SkippedWhileLocked ==
  [][(/\ lastOp'.op \in {"sendTasksInBatches", "fetchDone", "fetchFailed"}
      /\ ~lastOp'.forced
      /\ syncLock)
       => /\ lastOp'.ret = "true"
          /\ recentPushes' = recentPushes
          /\ syncLock'
          /\ \A p \in ProcIds : procs'[p].pc = "push" => procs[p].pc = "push"
    ]_vars

\* a call that was not forced has returned true while another send, which
\* holds the lock, is pushing or waiting
C32_Witness ==
  /\ lastOp.op = "sendTasksInBatches"
  /\ ~lastOp.forced
  /\ lastOp.ret = "true"
  /\ syncLock
  /\ \E p \in ProcIds : procs[p].pc \in {"push", "wait"}

\* C33: syncLock mirrors whether a send is in progress: it is true exactly
\* when some invocation of sendTasksInBatches has taken the lock and not yet
\* reached its finally block (it is pushing, or waiting between two pushes).
C33_LockMirrorsSends ==
  syncLock <=> \E p \in ProcIds : procs[p].pc \in {"push", "wait"}

\* C34: no lost wake-up: between two steps, when the queue is not empty or
\* the loop holds a task, isProcessingQueue is true (when it is false the
\* queue is empty), also after a task's execution or callback has thrown.
C34_NoLostWakeUp ==
  (syncQueue # <<>> \/ \E d \in DrainIds : procs[d].pc # "free")
    => isProcessingQueue

\* C35: the callback of a task is called exactly once: not at all in a pass
\* that holds the task for the backoff, once (never twice, also when it
\* throws) in the step in which the task's execution ends, and at most once
\* in any step.
C35_CallbackOnce ==
  /\ lastOp.calls <= 1
  /\ lastOp.done # NoTask => lastOp.calls = 1
  /\ (lastOp.taken # NoTask /\ ~lastOp.started) => lastOp.calls = 0

\* C36: through the drain loop and executeSync, in any interleaving, the
\* timestamps of the rate window that lie within the trailing 60 000 ms
\* are never more than MAX_CALLS_PER_MINUTE.
C36_WindowWithinLimit ==
  Len(RecentCallsOf(apiCalls, now)) <= MAX_CALLS_PER_MINUTE

\* the window is full of one executeSync call and one task of the queue,
\* and the drain loop has just taken the next task and holds it for the
\* backoff
C36_Witness ==
  /\ Len(RecentCallsOf(apiCalls, now)) = MAX_CALLS_PER_MINUTE
  /\ nExec > 0
  /\ lastOp.taken # NoTask
  /\ ~lastOp.started
  /\ \E d \in DrainIds : procs[d].pc = "backoff"

\* C37: a send that took the lock with a list of totalBatches > 0 pages
\* returns only after it has pushed the pages 1..totalBatches in ascending
\* order three rounds in a row, 3 * totalBatches pushes whatever their
\* results, and it returns true exactly when every push succeeded.
C37_ThreeRounds ==
  [][\A p \in SendIds :
       (procs[p].pc # "free" /\ procs'[p].pc = "free") =>
         LET totalBatches == procs[p].total
             pushes == 3 * totalBatches
         IN  /\ totalBatches > 0
             /\ lastOp'.pages =
                  [i \in 1..pushes |-> ((i - 1) % totalBatches) + 1]
             /\ Len(lastOp'.results) = pushes
             /\ lastOp'.ret \in {"true", "false"}
             /\ lastOp'.ret = "true"
                  <=> \A i \in 1..pushes : lastOp'.results[i]]_vars

\* a send of three pages has returned false after nine pushes, of which the
\* first failed and the last succeeded
C37_Witness ==
  /\ lastOp.op = "pushDone"
  /\ lastOp.total = 3
  /\ lastOp.ret = "false"
  /\ Len(lastOp.results) = 9
  /\ ~lastOp.results[1]
  /\ lastOp.results[9]

\* C38: lastTaskHash only records lists whose page was pushed
\* successfully: when a call with a non-empty list has skipped the push and
\* returned true, a push for that same list has succeeded before.
C38_SkipOnlyAfterSuccess ==
  (changeSends.skipped /\ changeSends.tasks # <<>>)
    => changeSends.tasks \in changeSends.succeeded

\* C39: a webhook request (past the environment check) for an event that
\* is in the dedup cache is answered 200 whatever the rate limiter says; one
\* for any other event while the window of the handler's limiter is full is
\* answered 429 and starts no fetch and no push, records no timestamp and
\* leaves the dedup cache as it is; and a request for an event that is not in
\* the cache, with the window not full, starts the sync when it is a database
\* event (so a redelivery after a 429 is processed).
C39_RefusedChangesNothing ==
  [][(lastOp'.op = "webhook" /\ nHook' = nHook + 1 /\ envOk) =>
       LET eventId == lastOp'.arg
           processed == eventId # NoEvent
                          /\ eventId \in Range(hookProcessedEvents)
           overLimit == Len(RecentCallsOf(hookApiCalls, now))
                          >= MAX_CALLS_PER_MINUTE
       IN  /\ processed =>
                /\ lastOp'.ret = "200"
                /\ UNCHANGED <<hookApiCalls, hookProcessedEvents, procs,
                               syncLock, recentPushes>>
           /\ (~processed /\ overLimit) =>
                /\ lastOp'.ret = "429"
                /\ UNCHANGED <<hookApiCalls, hookProcessedEvents, procs,
                               syncLock, recentPushes, apiCalls,
                               processedEvents, syncQueue, isProcessingQueue>>
           /\ (~processed /\ ~overLimit) =>
                \/ /\ lastOp'.ret = "200"
                   /\ UNCHANGED <<hookApiCalls, hookProcessedEvents, procs>>
                \/ /\ lastOp'.ret = "none"
                   /\ hookApiCalls' = RecordApiCall(hookApiCalls, now)
                   /\ \E p \in HookIds :
                        /\ procs[p].pc = "free"
                        /\ procs'[p].pc = "fetch"
                        /\ procs'[p].task.eventId = eventId]_vars

\* a request for the event has been answered 429, the event stayed out of
\* the cache, and its redelivery is now fetching
C39_Witness ==
  /\ \E e \in EventIds :
       /\ runs["refused"][e] > 0
       /\ e \notin Range(hookProcessedEvents)
       /\ lastOp.op = "webhook"
       /\ lastOp.arg = e
       /\ lastOp.ret = "none"
       /\ \E p \in HookIds :
            procs[p].pc = "fetch" /\ procs[p].task.eventId = e

====
